---- MODULE Spec2Model ----
(***************************************************************************)
(* A model of the typeblocking plugin (mjgallag/blockly-plugins): the      *)
(* workspace state tracker, the option generators, the block factory, the  *)
(* block positioner, the connection manager with its strategies, and the   *)
(* session controller that ties them to the floating input.                *)
(*                                                                         *)
(* Strings the code inspects character by character are sequences of       *)
(* one-character strings; opaque identifiers are TLA+ strings.             *)
(***************************************************************************)
EXTENDS Integers, Sequences, FiniteSets, TLC

VARIABLES
    \* ---- DefaultWorkspaceStateTracker instances and the host's listener list
    trackers,         \* Seq of [needsReload, eventListeners, changeTimeout]
    changeListeners,  \* host: workspace change listeners, <<tracker, handler>>
    trkLastOp,        \* history: the tracker operation performed last
    \* ---- the host
    ws,               \* the workspace (see "The host workspace")
    dom,              \* WidgetDiv, DropDownDiv, pointermove listeners, shortcuts
    \* ---- the plugin's objects
    tb,               \* the TypeBlocking instance
    controllers,      \* Seq of FloatingInputController instances
    generators,       \* Seq of SmartOptionGenerator instances
    patternManager,   \* an InputPatternManager the application holds itself
    positioner,       \* a block positioner the application holds itself
    \* ---- history
    lastCall          \* the call made last, its arguments and its outcome

trackerVars == <<trackers, changeListeners, trkLastOp>>

hostVars == <<ws, dom>>

pluginVars == <<tb, controllers, generators>>

standaloneVars == <<patternManager, positioner>>

vars == <<trackers, changeListeners, trkLastOp, ws, dom, tb, controllers, generators,
          patternManager, positioner, lastCall>>

(***************************************************************************)
(* Generic helpers                                                         *)
(***************************************************************************)
Range(s) == {s[i] : i \in DOMAIN s}

\* F applied to a value computed once.
With(v, F(_)) == F(v)

NoTimer == [type |-> "none"]

\* No object of the kind is held.
NoObject == [type |-> "none"]

(***************************************************************************)
(* Text.  A string the code inspects is a sequence of one-character        *)
(* strings; Str (below) gives the sequence for each literal the model uses.*)
(* A regular expression is an operator giving the RegExpMatchArray: groups *)
(* holds match[0], match[1], ... at indexes 1, 2, ...                      *)
(***************************************************************************)
Digits == {"0", "1", "2", "3", "4", "5", "6", "7", "8", "9"}

LowerOf ==
    [A |-> "a", B |-> "b", C |-> "c", D |-> "d", E |-> "e", F |-> "f", G |-> "g",
     H |-> "h", I |-> "i", J |-> "j", K |-> "k", L |-> "l", M |-> "m", N |-> "n",
     O |-> "o", P |-> "p", Q |-> "q", R |-> "r", S |-> "s", T |-> "t", U |-> "u",
     V |-> "v", W |-> "w", X |-> "x", Y |-> "y", Z |-> "z"]

UpperLetters == DOMAIN LowerOf
LowerLetters == {LowerOf[c] : c \in UpperLetters}

\* \w, \s and the quotes of the text grammar
WordChars == Digits \cup LowerLetters \cup UpperLetters \cup {"_"}
Whitespace == {" "}
Quotes == {"\"", "'"}
Operators == {"+", "-", "*", "/"}

toLowerCase(s) ==
    [i \in DOMAIN s |-> IF s[i] \in UpperLetters THEN LowerOf[s[i]] ELSE s[i]]

AllIn(s, set) == \A i \in DOMAIN s : s[i] \in set

Slice(s, from) == SubSeq(s, from, Len(s))

\* The index of the first character at or after i that is not in set
\* (Len(s) + 1 when there is none).
RunEnd(s, i, set) ==
    IF \E j \in i..Len(s) : s[j] \notin set
    THEN CHOOSE j \in i..Len(s) : s[j] \notin set /\ \A k \in i..(j - 1) : s[k] \in set
    ELSE Len(s) + 1

\* String.prototype.trim
trim(s) ==
    LET first == RunEnd(s, 1, Whitespace)
    IN  IF first > Len(s) THEN <<>>
        ELSE LET last == CHOOSE j \in first..Len(s) :
                             s[j] \notin Whitespace /\ \A k \in (j + 1)..Len(s) : s[k] \in Whitespace
             IN  SubSeq(s, first, last)

startsWith(s, prefix) ==
    Len(prefix) <= Len(s) /\ SubSeq(s, 1, Len(prefix)) = prefix

includes(s, part) ==
    \E i \in 1..(Len(s) - Len(part) + 1) : SubSeq(s, i, i + Len(part) - 1) = part

\* The character sequence of each string literal the model uses.
Str ==
    ("math_number" :> <<"m", "a", "t", "h", "_", "n", "u", "m", "b", "e", "r">>
     @@ "text" :> <<"t", "e", "x", "t">>
     @@ "logic_boolean" :> <<"l", "o", "g", "i", "c", "_", "b", "o", "o", "l", "e", "a", "n">>
     @@ "math_arithmetic" :> <<"m", "a", "t", "h", "_", "a", "r", "i", "t", "h", "m", "e", "t", "i", "c">>
     @@ "variables_get" :> <<"v", "a", "r", "i", "a", "b", "l", "e", "s", "_", "g", "e", "t">>
     @@ "variables_set" :> <<"v", "a", "r", "i", "a", "b", "l", "e", "s", "_", "s", "e", "t">>
     @@ "text_print" :> <<"t", "e", "x", "t", "_", "p", "r", "i", "n", "t">>
     @@ "controls_if" :> <<"c", "o", "n", "t", "r", "o", "l", "s", "_", "i", "f">>
     @@ "procedures_defnoreturn" :> <<"p", "r", "o", "c", "e", "d", "u", "r", "e", "s", "_", "d", "e", "f", "n", "o", "r", "e", "t", "u", "r", "n">>
     @@ "procedures_defreturn" :> <<"p", "r", "o", "c", "e", "d", "u", "r", "e", "s", "_", "d", "e", "f", "r", "e", "t", "u", "r", "n">>
     @@ "procedures_callnoreturn" :> <<"p", "r", "o", "c", "e", "d", "u", "r", "e", "s", "_", "c", "a", "l", "l", "n", "o", "r", "e", "t", "u", "r", "n">>
     @@ "procedures_callreturn" :> <<"p", "r", "o", "c", "e", "d", "u", "r", "e", "s", "_", "c", "a", "l", "l", "r", "e", "t", "u", "r", "n">>
     @@ "event_step" :> <<"e", "v", "e", "n", "t", "_", "s", "t", "e", "p">>
     @@ "event_hat" :> <<"e", "v", "e", "n", "t", "_", "h", "a", "t">>
     @@ "no_such_block" :> <<"n", "o", "_", "s", "u", "c", "h", "_", "b", "l", "o", "c", "k">>
     @@ "42" :> <<"4", "2">>
     @@ "-3" :> <<"-", "3">>
     @@ "4" :> <<"4">>
     @@ "5" :> <<"5">>
     @@ "0" :> <<"0">>
     @@ "true" :> <<"t", "r", "u", "e">>
     @@ "TRUE" :> <<"T", "R", "U", "E">>
     @@ "false" :> <<"f", "a", "l", "s", "e">>
     @@ "FALSE" :> <<"F", "A", "L", "S", "E">>
     @@ "\"hi\"" :> <<"\"", "h", "i", "\"">>
     @@ "2 + 3" :> <<"2", " ", "+", " ", "3">>
     @@ "2+3" :> <<"2", "+", "3">>
     @@ "set x to 5" :> <<"s", "e", "t", " ", "x", " ", "t", "o", " ", "5">>
     @@ "set x to y" :> <<"s", "e", "t", " ", "x", " ", "t", "o", " ", "y">>
     @@ "set x to" :> <<"s", "e", "t", " ", "x", " ", "t", "o">>
     @@ "set y to" :> <<"s", "e", "t", " ", "y", " ", "t", "o">>
     @@ "get x" :> <<"g", "e", "t", " ", "x">>
     @@ "get y" :> <<"g", "e", "t", " ", "y">>
     @@ "x" :> <<"x">>
     @@ "y" :> <<"y">>
     @@ "g" :> <<"g">>
     @@ "ge" :> <<"g", "e">>
     @@ "go" :> <<"g", "o">>
     @@ "print" :> <<"p", "r", "i", "n", "t">>
     @@ "if" :> <<"i", "f">>
     @@ "go()" :> <<"g", "o", "(", ")">>
     @@ "nosuch" :> <<"n", "o", "s", "u", "c", "h">>
     @@ "ADD" :> <<"A", "D", "D">>
     @@ "MINUS" :> <<"M", "I", "N", "U", "S">>
     @@ "MULTIPLY" :> <<"M", "U", "L", "T", "I", "P", "L", "Y">>
     @@ "DIVIDE" :> <<"D", "I", "V", "I", "D", "E">>
     @@ "set y to \"hi\"" :> <<"s", "e", "t", " ", "y", " ", "t", "o", " ", "\"", "h", "i", "\"">>
     @@ "get " :> <<"g", "e", "t", " ">>
     @@ "set " :> <<"s", "e", "t", " ">>
     @@ " to" :> <<" ", "t", "o">>
     @@ ", " :> <<",", " ">>
     @@ "\"hello world\"" :> <<"\"", "h", "e", "l", "l", "o", " ", "w", "o", "r", "l", "d", "\"">>
     @@ "\"example text\"" :> <<"\"", "e", "x", "a", "m", "p", "l", "e", " ", "t", "e", "x", "t", "\"">>
     @@ "'example text'" :> <<"'", "e", "x", "a", "m", "p", "l", "e", " ", "t", "e", "x", "t", "'">>
     @@ " to " :> <<" ", "t", "o", " ">>
     @@ " to 0" :> <<" ", "t", "o", " ", "0">>
     @@ " to \"text\"" :> <<" ", "t", "o", " ", "\"", "t", "e", "x", "t", "\"">>
     @@ " to true" :> <<" ", "t", "o", " ", "t", "r", "u", "e">>
     @@ "set myVar to 42" :> <<"s", "e", "t", " ", "m", "y", "V", "a", "r", " ", "t", "o", " ", "4", "2">>
     @@ "set count to 0" :> <<"s", "e", "t", " ", "c", "o", "u", "n", "t", " ", "t", "o", " ", "0">>
     @@ "example" :> <<"e", "x", "a", "m", "p", "l", "e">>
     @@ "1" :> <<"1">>
     @@ "3.14" :> <<"3", ".", "1", "4">>
     @@ " + 1" :> <<" ", "+", " ", "1">>
     @@ " * 2" :> <<" ", "*", " ", "2">>
     @@ "set name to \"hello\"" :> <<"s", "e", "t", " ", "n", "a", "m", "e", " ", "t", "o", " ", "\"", "h", "e", "l", "l", "o", "\"">>
     @@ "set flag to true" :> <<"s", "e", "t", " ", "f", "l", "a", "g", " ", "t", "o", " ", "t", "r", "u", "e">>
     @@ "repeat" :> <<"r", "e", "p", "e", "a", "t">>
     @@ "set variable" :> <<"s", "e", "t", " ", "v", "a", "r", "i", "a", "b", "l", "e">>
     @@ "math" :> <<"m", "a", "t", "h">>
     @@ "when" :> <<"w", "h", "e", "n">>
     @@ "set" :> <<"s", "e", "t">>
     @@ "get" :> <<"g", "e", "t">>
     @@ "number" :> <<"n", "u", "m", "b", "e", "r">>
     @@ "arithmetic" :> <<"a", "r", "i", "t", "h", "m", "e", "t", "i", "c">>
     @@ "calculate" :> <<"c", "a", "l", "c", "u", "l", "a", "t", "e">>
     @@ "string" :> <<"s", "t", "r", "i", "n", "g">>
     @@ "concat" :> <<"c", "o", "n", "c", "a", "t">>
     @@ "join" :> <<"j", "o", "i", "n">>
     @@ "logic" :> <<"l", "o", "g", "i", "c">>
     @@ "boolean" :> <<"b", "o", "o", "l", "e", "a", "n">>
     @@ "compare" :> <<"c", "o", "m", "p", "a", "r", "e">>
     @@ "variable" :> <<"v", "a", "r", "i", "a", "b", "l", "e">>
     @@ "var" :> <<"v", "a", "r">>
     @@ "t" :> <<"t">>
     @@ "f" :> <<"f">>
     @@ "text print" :> <<"t", "e", "x", "t", " ", "p", "r", "i", "n", "t">>)

NoMatch == [matched |-> FALSE, groups |-> <<>>]
Match(groups) == [matched |-> TRUE, groups |-> groups]

\* \d*\.?\d+ anchored at both ends
IsUnsignedNumber(r) ==
    \/ Len(r) >= 1 /\ AllIn(r, Digits)
    \/ \E i \in 1..(Len(r) - 1) :
          /\ r[i] = "."
          /\ AllIn(SubSeq(r, 1, i - 1), Digits)
          /\ AllIn(Slice(r, i + 1), Digits)

\* /^-?\d*\.?\d+$/
NumberRegex(s) ==
    IF IsUnsignedNumber(IF s # <<>> /\ s[1] = "-" THEN Tail(s) ELSE s)
    THEN Match(<<s>>) ELSE NoMatch

\* /^["'](.*)["']$/
TextRegex(s) ==
    IF Len(s) >= 2 /\ s[1] \in Quotes /\ s[Len(s)] \in Quotes
    THEN Match(<<s, SubSeq(s, 2, Len(s) - 1)>>) ELSE NoMatch

\* /^(true|false)$/i
BooleanRegex(s) ==
    IF toLowerCase(s) \in {<<"t", "r", "u", "e">>, <<"f", "a", "l", "s", "e">>}
    THEN Match(<<s, s>>) ELSE NoMatch

\* \d+(?:\.\d+)? anchored at both ends
IsDecimal(r) ==
    \/ Len(r) >= 1 /\ AllIn(r, Digits)
    \/ \E i \in 2..(Len(r) - 1) :
          /\ r[i] = "."
          /\ AllIn(SubSeq(r, 1, i - 1), Digits)
          /\ AllIn(Slice(r, i + 1), Digits)

\* /^(\d+(?:\.\d+)?)\s*([+\-*/])\s*(\d+(?:\.\d+)?)$/
MathExpressionRegex(s) ==
    LET leftEnd == RunEnd(s, 1, Digits \cup {"."})
        op == RunEnd(s, leftEnd, Whitespace)
        rightStart == RunEnd(s, op + 1, Whitespace)
    IN  IF /\ op <= Len(s)
           /\ s[op] \in Operators
           /\ IsDecimal(SubSeq(s, 1, leftEnd - 1))
           /\ IsDecimal(Slice(s, rightStart))
        THEN Match(<<s, SubSeq(s, 1, leftEnd - 1), <<s[op]>>, Slice(s, rightStart)>>)
        ELSE NoMatch

\* /^set\s+(\w+)\s+to\s+(.+)$/i
VariableAssignmentRegex(s) ==
    LET nameStart == RunEnd(s, 4, Whitespace)
        nameEnd == RunEnd(s, nameStart, WordChars)
        toStart == RunEnd(s, nameEnd, Whitespace)
        afterTo == toStart + 2
        restStart == RunEnd(s, afterTo, Whitespace)
        \* \s+ gives back one character when nothing else is left for (.+)
        valueStart == IF restStart > Len(s) THEN Len(s) ELSE restStart
    IN  IF /\ Len(s) >= 3
           /\ toLowerCase(SubSeq(s, 1, 3)) = <<"s", "e", "t">>
           /\ nameStart > 4
           /\ nameEnd > nameStart
           /\ toStart > nameEnd
           /\ afterTo <= Len(s)
           /\ toLowerCase(SubSeq(s, toStart, toStart + 1)) = <<"t", "o">>
           /\ restStart > afterTo
           /\ valueStart > afterTo
        THEN Match(<<s, SubSeq(s, nameStart, nameEnd - 1), Slice(s, valueStart)>>)
        ELSE NoMatch

\* /^\w+$/
WordRegex(s) == Len(s) >= 1 /\ AllIn(s, WordChars)

(***************************************************************************)
(* The host workspace (Blockly), as far as the plugin reads and writes it. *)
(* A workspace value W is a record                                         *)
(*   blocks    : Seq of [type, x, y, fields]   (the index is the block id) *)
(*   links     : set of <<superior, inferior>> connection pairs            *)
(*   variables : Seq of declared variable names (type '')                  *)
(*   selected  : the selected block's id, 0 for none                       *)
(*   registered: the block types registered in Blockly.Blocks              *)
(*   typeblock : for each block type, its typeblock alias (a set holding   *)
(*               the alias, empty when the property is not set)            *)
(*   strict    : whether connect() throws when the checker refuses         *)
(*   view      : scale, viewLeft/viewTop (metrics), the injection div rect *)
(* A connection is <<block id, name>>, name being "previous", "next",      *)
(* "output" or the name of an input.                                       *)
(***************************************************************************)
Absent == {"<absent>"}   \* the block has no such connection
NoCheck == {"<null>"}    \* getCheck() is null: no type restriction

\* Blockly.Blocks: the shape of each registered block type.
Input(name, kind, check) == [name |-> name, kind |-> kind, check |-> check]

BlockDefs ==
    [math_number |->
        [previous |-> Absent, next |-> Absent, output |-> {"Number"},
         inputs |-> <<>>, fields |-> {"NUM"}],
     text |->
        [previous |-> Absent, next |-> Absent, output |-> {"String"},
         inputs |-> <<>>, fields |-> {"TEXT"}],
     logic_boolean |->
        [previous |-> Absent, next |-> Absent, output |-> {"Boolean"},
         inputs |-> <<>>, fields |-> {"BOOL"}],
     math_arithmetic |->
        [previous |-> Absent, next |-> Absent, output |-> {"Number"},
         inputs |-> <<Input("A", "value", {"Number"}), Input("B", "value", {"Number"})>>,
         fields |-> {"OP"}],
     variables_get |->
        [previous |-> Absent, next |-> Absent, output |-> NoCheck,
         inputs |-> <<>>, fields |-> {"VAR"}],
     variables_set |->
        [previous |-> NoCheck, next |-> NoCheck, output |-> Absent,
         inputs |-> <<Input("VALUE", "value", NoCheck)>>, fields |-> {"VAR"}],
     text_print |->
        [previous |-> NoCheck, next |-> NoCheck, output |-> Absent,
         inputs |-> <<Input("TEXT", "value", NoCheck)>>, fields |-> {}],
     controls_if |->
        [previous |-> NoCheck, next |-> NoCheck, output |-> Absent,
         inputs |-> <<Input("IF0", "value", {"Boolean"}), Input("DO0", "statement", NoCheck)>>,
         fields |-> {}],
     procedures_defnoreturn |->
        [previous |-> Absent, next |-> Absent, output |-> Absent,
         inputs |-> <<Input("STACK", "statement", NoCheck)>>, fields |-> {"NAME"}],
     procedures_defreturn |->
        [previous |-> Absent, next |-> Absent, output |-> Absent,
         inputs |-> <<Input("STACK", "statement", NoCheck), Input("RETURN", "value", NoCheck)>>,
         fields |-> {"NAME"}],
     procedures_callnoreturn |->
        [previous |-> NoCheck, next |-> NoCheck, output |-> Absent,
         inputs |-> <<>>, fields |-> {"NAME"}],
     procedures_callreturn |->
        [previous |-> Absent, next |-> Absent, output |-> NoCheck,
         inputs |-> <<>>, fields |-> {"NAME"}],
     event_step |->
        [previous |-> {"Event"}, next |-> {"Event"}, output |-> Absent,
         inputs |-> <<>>, fields |-> {}],
     event_hat |->
        [previous |-> Absent, next |-> {"Event"}, output |-> Absent,
         inputs |-> <<Input("BODY", "statement", {"Event"})>>, fields |-> {}]]

BlockTypes == DOMAIN BlockDefs

EmptyFields == [f \in {} |-> ""]

\* params: the parameter names getVars() gives for a procedure definition.
NewBlockRecord(type) ==
    [type |-> type, x |-> 0, y |-> 0, fields |-> EmptyFields, params |-> <<>>]

\* A block type an application registers of its own, with a type restriction
\* on its sequencing connections.
ApplicationBlockDefs ==
    [state_step |->
        [previous |-> {"State"}, next |-> {"State"}, output |-> Absent,
         inputs |-> <<>>, fields |-> {}]]

Def(W, b) ==
    IF W.blocks[b].type \in DOMAIN BlockDefs THEN BlockDefs[W.blocks[b].type]
    ELSE ApplicationBlockDefs[W.blocks[b].type]

InputIndex(def, name) ==
    IF \E i \in DOMAIN def.inputs : def.inputs[i].name = name
    THEN CHOOSE i \in DOMAIN def.inputs : def.inputs[i].name = name
    ELSE 0

\* The check of connection c, or Absent when the block has no such connection.
ConnCheck(W, c) ==
    LET def == Def(W, c[1])
    IN  CASE c[2] = "previous" -> def.previous
          [] c[2] = "next" -> def.next
          [] c[2] = "output" -> def.output
          [] OTHER -> IF InputIndex(def, c[2]) = 0 THEN Absent
                      ELSE def.inputs[InputIndex(def, c[2])].check

HasConn(W, c) == ConnCheck(W, c) # Absent

\* Blockly's connection types.
ConnType(W, c) ==
    CASE c[2] = "previous" -> "PREVIOUS_STATEMENT"
      [] c[2] = "next" -> "NEXT_STATEMENT"
      [] c[2] = "output" -> "OUTPUT_VALUE"
      [] OTHER -> IF Def(W, c[1]).inputs[InputIndex(Def(W, c[1]), c[2])].kind = "statement"
                  THEN "NEXT_STATEMENT" ELSE "INPUT_VALUE"

IsSuperior(W, c) == ConnType(W, c) \in {"NEXT_STATEMENT", "INPUT_VALUE"}

OppositeType(t) ==
    CASE t = "PREVIOUS_STATEMENT" -> "NEXT_STATEMENT"
      [] t = "NEXT_STATEMENT" -> "PREVIOUS_STATEMENT"
      [] t = "OUTPUT_VALUE" -> "INPUT_VALUE"
      [] t = "INPUT_VALUE" -> "OUTPUT_VALUE"

NoConnection == <<0, "none">>

\* block.previousConnection, block.nextConnection, block.outputConnection
Prev(b) == <<b, "previous">>
Nxt(b) == <<b, "next">>
Out(b) == <<b, "output">>

\* connection.targetConnection
targetConnection(W, c) ==
    IF \E l \in W.links : l[1] = c THEN (CHOOSE l \in W.links : l[1] = c)[2]
    ELSE IF \E l \in W.links : l[2] = c THEN (CHOOSE l \in W.links : l[2] = c)[1]
    ELSE NoConnection

isConnected(W, c) == targetConnection(W, c) # NoConnection

\* connection.disconnect()
disconnect(W, c) ==
    [W EXCEPT !.links = {l \in W.links : l[1] # c /\ l[2] # c}]

\* The connection checker's type check (doTypeChecks).
ChecksMatch(k1, k2) == k1 = NoCheck \/ k2 = NoCheck \/ (k1 \cap k2) # {}

\* The connection checker's safety and type checks for a.connect(b).
HostCanConnect(W, a, b) ==
    /\ HasConn(W, a) /\ HasConn(W, b)
    /\ a[1] # b[1]
    /\ ConnType(W, a) = OppositeType(ConnType(W, b))
    /\ ChecksMatch(ConnCheck(W, a), ConnCheck(W, b))

\* a.connect(b) in the host.  A connection the checker refuses is, depending
\* on the host's version, either an exception or a silent no-op: W.strict
\* says which.  A connection already made is a no-op; an occupied end is
\* released first.  The result is the new workspace and whether it threw.
hostConnect(W, a, b) ==
    IF a[1] # 0 /\ b[1] # 0 /\ targetConnection(W, a) = b /\ isConnected(W, a)
    THEN [ws |-> W, threw |-> FALSE]
    ELSE IF a[1] # 0 /\ b[1] # 0 /\ HostCanConnect(W, a, b)
    THEN LET sup == IF IsSuperior(W, a) THEN a ELSE b
             inf == IF IsSuperior(W, a) THEN b ELSE a
             W1 == disconnect(disconnect(W, a), b)
         IN  [ws |-> [W1 EXCEPT !.links = @ \cup {<<sup, inf>>}], threw |-> FALSE]
    ELSE [ws |-> W, threw |-> W.strict]

\* workspace.newBlock(type): the new block's id is the next index; a type
\* that is not registered throws.
hostNewBlock(W, type) ==
    IF type \in W.registered
    THEN [ws |-> [W EXCEPT !.blocks = Append(@, NewBlockRecord(type))], threw |-> FALSE]
    ELSE [ws |-> W, threw |-> TRUE]

NewestBlock(W) == Len(W.blocks)

\* block.moveBy(dx, dy)
moveBy(W, b, dx, dy) ==
    [W EXCEPT !.blocks[b].x = @ + dx, !.blocks[b].y = @ + dy]

\* block.select(); Blockly.common.getSelected() reads W.selected.
select(W, b) == [W EXCEPT !.selected = b]

(***************************************************************************)
(* BlockFactory (block-factory.ts).  Every operation gives the workspace   *)
(* afterwards and the block returned, 0 standing for undefined.            *)
(***************************************************************************)
NoBlock(W) == [ws |-> W, block |-> 0]

\* block.getField(name)?.setValue(value)
setFieldValue(W, b, name, value) ==
    IF name \in Def(W, b).fields
    THEN [W EXCEPT !.blocks[b].fields = [f \in DOMAIN @ \cup {name} |->
                                            IF f = name THEN value ELSE @[f]]]
    ELSE W

getFieldValue(W, b, name) ==
    IF name \in DOMAIN W.blocks[b].fields THEN W.blocks[b].fields[name] ELSE <<>>

\* workspace.getVariable(name): the id (index) of the variable, 0 when there
\* is none.  The host compares variable names without regard to case.
getVariable(W, name) ==
    IF \E i \in DOMAIN W.variables : toLowerCase(W.variables[i]) = toLowerCase(name)
    THEN CHOOSE i \in DOMAIN W.variables :
            /\ toLowerCase(W.variables[i]) = toLowerCase(name)
            /\ \A j \in 1..(i - 1) : toLowerCase(W.variables[j]) # toLowerCase(name)
    ELSE 0

\* workspace.createVariable(name)
createVariable(W, name) == [W EXCEPT !.variables = Append(@, name)]

VariableId(i) == [id |-> i]

\* The value fields of the instruction's fieldValues, set one by one.
RECURSIVE setFieldValues(_, _, _, _)
setFieldValues(W, block, fieldValues, names) ==
    IF names = <<>> THEN W
    ELSE LET fieldName == Head(names)
             value == fieldValues[fieldName]
             W1 == IF fieldName \notin Def(W, block).fields THEN W
                   ELSE IF fieldName = "VAR"
                           /\ W.blocks[block].type \in {"variables_set", "variables_get"}
                   THEN LET W0 == IF getVariable(W, value) = 0
                                  THEN createVariable(W, value) ELSE W
                        IN  setFieldValue(W0, block, fieldName,
                                          VariableId(getVariable(W0, value)))
                   ELSE setFieldValue(W, block, fieldName, value)
         IN  setFieldValues(W1, block, fieldValues, Tail(names))

\* A BlockCreationInstruction: blockType, fieldValues (fieldOrder giving the
\* order of Object.entries) and children, each [input, instruction].
Instruction(blockType, fieldOrder, fieldValues, children) ==
    [blockType |-> blockType, fieldOrder |-> fieldOrder,
     fieldValues |-> fieldValues, children |-> children]

Child(input, instruction) == [input |-> input, instruction |-> instruction]

\* createBlockFromInstruction; threw tells the caller's loop over the children
\* that an exception left it.
RECURSIVE createBlockFromInstruction(_, _)
RECURSIVE attachChildren(_, _, _)
attachChildren(W, block, children) ==
    IF children = <<>> THEN [ws |-> W, threw |-> FALSE]
    ELSE With(Head(children), LAMBDA child :
         With(createBlockFromInstruction(W, child.instruction), LAMBDA c :
         IF c.block # 0
            /\ InputIndex(Def(c.ws, block), child.input) # 0
            /\ HasConn(c.ws, Out(c.block))
         THEN With(hostConnect(c.ws, Out(c.block), <<block, child.input>>), LAMBDA r :
              IF r.threw THEN [ws |-> r.ws, threw |-> TRUE]
              ELSE attachChildren(r.ws, block, Tail(children)))
         ELSE attachChildren(c.ws, block, Tail(children))))

createBlockFromInstruction(W, instruction) ==
    With(hostNewBlock(W, instruction.blockType), LAMBDA n :
    IF n.threw THEN NoBlock(W)
    ELSE With(NewestBlock(n.ws), LAMBDA block :
         With(setFieldValues(n.ws, block, instruction.fieldValues,
                             instruction.fieldOrder),
              LAMBDA W1 :
         With(attachChildren(W1, block, instruction.children), LAMBDA r :
         IF r.threw THEN NoBlock(r.ws)
         ELSE [ws |-> r.ws, block |-> block]))))

\* /^get\s+(.+)$/
GetRegex(s) ==
    LET restStart == RunEnd(s, 4, Whitespace)
        nameStart == IF restStart > Len(s) THEN Len(s) ELSE restStart
    IN  IF /\ Len(s) >= 5
           /\ SubSeq(s, 1, 3) = <<"g", "e", "t">>
           /\ restStart > 4
           /\ nameStart > 4
        THEN Match(<<s, Slice(s, nameStart)>>)
        ELSE NoMatch

\* /^set\s+(.+?)\s+to$/: the first \s+ takes as much as it can (k), the name
\* as little as it can (n), so that what follows the name is \s+to.
SetToSplits(s) ==
    {p \in (1..Len(s)) \X (1..Len(s)) :
        LET k == p[1]
            n == p[2]
            tail == Slice(s, 4 + k + n)
        IN  /\ 3 + k + n + 3 <= Len(s)
            /\ AllIn(SubSeq(s, 4, 3 + k), Whitespace)
            /\ Len(tail) >= 3
            /\ SubSeq(tail, Len(tail) - 1, Len(tail)) = <<"t", "o">>
            /\ AllIn(SubSeq(tail, 1, Len(tail) - 2), Whitespace)}

SetToRegex(s) ==
    IF Len(s) >= 3 /\ SubSeq(s, 1, 3) = <<"s", "e", "t">> /\ SetToSplits(s) # {}
    THEN LET p == CHOOSE q \in SetToSplits(s) :
                    \A r \in SetToSplits(s) :
                        q[1] > r[1] \/ (q[1] = r[1] /\ q[2] <= r[2])
         IN  Match(<<s, SubSeq(s, 4 + p[1], 3 + p[1] + p[2])>>)
    ELSE NoMatch

\* /^([^(]+)(?:\([^)]*\))?$/
ProcedureRegex(s) ==
    IF Len(s) >= 1 /\ "(" \notin Range(s) THEN Match(<<s, s>>)
    ELSE LET open == RunEnd(s, 1, Range(s) \ {"("})
         IN  IF /\ open > 1 /\ open < Len(s)
                /\ s[Len(s)] = ")"
                /\ ")" \notin Range(SubSeq(s, open + 1, Len(s) - 1))
             THEN Match(<<s, SubSeq(s, 1, open - 1)>>)
             ELSE NoMatch

\* The blocks that define a procedure called name.
isProcedureDefinition(W, b, name) ==
    /\ W.blocks[b].type \in {"procedures_defnoreturn", "procedures_defreturn"}
    /\ getFieldValue(W, b, "NAME") = name

isProcedureName(W, name) ==
    \E b \in DOMAIN W.blocks : isProcedureDefinition(W, b, name)

\* A block of a type the host always has, with one field set.
newBlockWithField(W, type, field, value) ==
    LET n == hostNewBlock(W, type)
    IN  [ws |-> setFieldValue(n.ws, NewestBlock(n.ws), field, value),
         block |-> NewestBlock(n.ws)]

createVariableGetter(W, variableName) ==
    IF getVariable(W, variableName) = 0 THEN NoBlock(W)
    ELSE newBlockWithField(W, "variables_get", "VAR",
                           VariableId(getVariable(W, variableName)))

createVariableSetter(W, variableName) ==
    IF getVariable(W, variableName) = 0 THEN NoBlock(W)
    ELSE newBlockWithField(W, "variables_set", "VAR",
                           VariableId(getVariable(W, variableName)))

createProcedureCall(W, procedureName) ==
    LET defs == {b \in DOMAIN W.blocks : isProcedureDefinition(W, b, procedureName)}
        hasReturn ==
            defs # {} /\ W.blocks[CHOOSE b \in defs : \A c \in defs : b <= c].type
                            = "procedures_defreturn"
    IN  newBlockWithField(W, IF hasReturn THEN "procedures_callreturn"
                             ELSE "procedures_callnoreturn",
                          "NAME", procedureName)

createSpecialBlock(W, value) ==
    IF GetRegex(value).matched
    THEN createVariableGetter(W, GetRegex(value).groups[2])
    ELSE IF SetToRegex(value).matched
    THEN createVariableSetter(W, SetToRegex(value).groups[2])
    ELSE IF /\ ProcedureRegex(value).matched
            /\ isProcedureName(W, trim(ProcedureRegex(value).groups[2]))
    THEN createProcedureCall(W, trim(ProcedureRegex(value).groups[2]))
    ELSE NoBlock(W)

\* Blockly.Blocks in its key order, and the registered type a text names.
BlockOrder ==
    <<"math_number", "text", "logic_boolean", "math_arithmetic", "variables_get",
      "variables_set", "text_print", "controls_if", "procedures_defnoreturn",
      "procedures_defreturn", "procedures_callnoreturn", "procedures_callreturn",
      "event_step", "event_hat">>

RegisteredTypeNamed(W, value) ==
    IF \E t \in W.registered : Str[t] = value
    THEN CHOOSE t \in W.registered : Str[t] = value
    ELSE "none"

createBlock(W, value) ==
    With(createSpecialBlock(W, value), LAMBDA special :
    With({i \in DOMAIN BlockOrder :
             BlockOrder[i] \in W.registered /\ value \in W.typeblock[BlockOrder[i]]},
         LAMBDA aliased :
    With(IF RegisteredTypeNamed(W, value) # "none" THEN RegisteredTypeNamed(W, value)
         ELSE IF aliased # {}
         THEN BlockOrder[CHOOSE i \in aliased : \A j \in aliased : i <= j]
         ELSE "none",
         LAMBDA blockType :
    IF special.block # 0 THEN special
    ELSE IF blockType = "none" THEN NoBlock(special.ws)
    ELSE With(hostNewBlock(special.ws, blockType), LAMBDA n :
         [ws |-> n.ws, block |-> NewestBlock(n.ws)]))))

(***************************************************************************)
(* Built-in input patterns (builtin-patterns.ts).  A pattern is            *)
(* [name, priority]; its grammar, parse step and completeness test are     *)
(* looked up by name.                                                      *)
(***************************************************************************)
NoInstruction == [blockType |-> "none"]

NoFields == [f \in {} |-> <<>>]

Literal(blockType, field, value) ==
    Instruction(blockType, <<field>>, [f \in {field} |-> value], <<>>)

Pattern(name, priority) == [name |-> name, priority |-> priority]

getBuiltinPatterns ==
    <<Pattern("number", 100), Pattern("text", 95), Pattern("boolean", 90),
      Pattern("math_expression", 80), Pattern("variable_assignment", 85)>>

\* A pattern an application supplies in customPatterns: /^yes$/, priority
\* 50, parsed to a logic_boolean block, without isComplete.
CustomPatternName == "affirmation"

CustomPattern == Pattern(CustomPatternName, 50)

CustomRegex(s) == IF s = <<"y", "e", "s">> THEN Match(<<s>>) ELSE NoMatch

CustomPattern_parseInput(match) == Literal("logic_boolean", "BOOL", <<"T", "R", "U", "E">>)

\* input.match(pattern.pattern)
PatternRegex(name, s) ==
    CASE name = "number" -> NumberRegex(s)
      [] name = "text" -> TextRegex(s)
      [] name = "boolean" -> BooleanRegex(s)
      [] name = "math_expression" -> MathExpressionRegex(s)
      [] name = "variable_assignment" -> VariableAssignmentRegex(s)
      [] name = CustomPatternName -> CustomRegex(s)

\* BasePattern.isComplete
\* pattern.isComplete && pattern.isComplete(input): the custom pattern has
\* no isComplete.
isComplete(name, input) ==
    name # CustomPatternName /\ PatternRegex(name, trim(input)).matched

\* The grammar admits only digits, one point and a sign, so parseFloat never
\* gives NaN on a match.
NumberPattern_parseInput(match) == Literal("math_number", "NUM", match.groups[1])

TextPattern_parseInput(match) == Literal("text", "TEXT", match.groups[2])

BooleanValue(text) ==
    IF toLowerCase(text) = Str["true"] THEN Str["TRUE"] ELSE Str["FALSE"]

BooleanPattern_parseInput(match) ==
    Literal("logic_boolean", "BOOL", BooleanValue(match.groups[2]))

operatorMap == ("+" :> Str["ADD"] @@ "-" :> Str["MINUS"]
                @@ "*" :> Str["MULTIPLY"] @@ "/" :> Str["DIVIDE"])

MathExpressionPattern_parseInput(match) ==
    LET operator == match.groups[3][1]
    IN  IF operator \notin DOMAIN operatorMap THEN NoInstruction
        ELSE Instruction("math_arithmetic", <<"OP">>,
                         [f \in {"OP"} |-> operatorMap[operator]],
                         <<Child("A", Literal("math_number", "NUM", match.groups[2])),
                           Child("B", Literal("math_number", "NUM", match.groups[4]))>>)

\* parseValueInstruction that keeps the quotes of a quoted text.
parseValueInstruction_keepsQuotes(value) ==
    IF NumberRegex(value).matched THEN Literal("math_number", "NUM", value)
    ELSE IF TextRegex(value).matched THEN Literal("text", "TEXT", value)
    ELSE IF BooleanRegex(value).matched
    THEN Literal("logic_boolean", "BOOL", BooleanValue(value))
    ELSE IF WordRegex(value) THEN Literal("variables_get", "VAR", value)
    ELSE NoInstruction

parseValueInstruction(value) ==
    IF NumberRegex(value).matched THEN Literal("math_number", "NUM", value)
    ELSE IF TextRegex(value).matched
    THEN Literal("text", "TEXT", TextRegex(value).groups[2])
    ELSE IF BooleanRegex(value).matched
    THEN Literal("logic_boolean", "BOOL", BooleanValue(value))
    ELSE IF WordRegex(value) THEN Literal("variables_get", "VAR", value)
    ELSE NoInstruction

VariableAssignmentPattern_parseInput(match) ==
    LET varName == match.groups[2]
        valueInstruction == parseValueInstruction(trim(match.groups[3]))
    IN  IF valueInstruction = NoInstruction THEN NoInstruction
        ELSE Instruction("variables_set", <<"VAR">>, [f \in {"VAR"} |-> varName],
                         <<Child("VALUE", valueInstruction)>>)

parseInput(name, match) ==
    CASE name = "number" -> NumberPattern_parseInput(match)
      [] name = "text" -> TextPattern_parseInput(match)
      [] name = "boolean" -> BooleanPattern_parseInput(match)
      [] name = "math_expression" -> MathExpressionPattern_parseInput(match)
      [] name = "variable_assignment" -> VariableAssignmentPattern_parseInput(match)
      [] name = CustomPatternName -> CustomPattern_parseInput(match)

(***************************************************************************)
(* Stable sorting, as Array.prototype.sort: Less is the set of pairs       *)
(* <<a, b>> for which the comparator is negative.                          *)
(***************************************************************************)
RECURSIVE InsertStable(_, _, _)
InsertStable(sorted, e, Less) ==
    IF sorted = <<>> THEN <<e>>
    ELSE LET last == sorted[Len(sorted)]
         IN  IF <<e, last>> \in Less
             THEN Append(InsertStable(SubSeq(sorted, 1, Len(sorted) - 1), e, Less), last)
             ELSE Append(sorted, e)

RECURSIVE StableSort(_, _)
StableSort(seq, Less) ==
    IF seq = <<>> THEN <<>>
    ELSE InsertStable(StableSort(SubSeq(seq, 1, Len(seq) - 1), Less), seq[Len(seq)], Less)

RECURSIVE FilterSeq(_, _)
FilterSeq(seq, keep) ==
    IF seq = <<>> THEN <<>>
    ELSE IF Head(seq) \in keep THEN <<Head(seq)>> \o FilterSeq(Tail(seq), keep)
    ELSE FilterSeq(Tail(seq), keep)

\* [...new Set(seq)]: the first occurrence of each element, in order.
RECURSIVE Dedupe(_)
Dedupe(seq) ==
    IF seq = <<>> THEN <<>>
    ELSE LET init == Dedupe(SubSeq(seq, 1, Len(seq) - 1))
             e == seq[Len(seq)]
         IN  IF e \in Range(init) THEN init ELSE Append(init, e)

Take(seq, n) == SubSeq(seq, 1, IF Len(seq) < n THEN Len(seq) ELSE n)

(***************************************************************************)
(* InputPatternManager (pattern-manager.ts).  Confidences are in           *)
(* thousandths: 800 stands for 0.8.  A manager is                          *)
(*   config         : the Required<PatternConfig>                          *)
(*   patterns       : the registered patterns in checking order            *)
(*   detectionCache : input -> PatternDetectionResult, for the inputs seen *)
(***************************************************************************)
DefaultConfidenceThreshold == 700
PerfectConfidence == 950

NoDetection == [found |-> FALSE]

Detection(pattern, match, confidence) ==
    [found |-> TRUE, pattern |-> pattern, match |-> match, confidence |-> confidence]

EmptyCache == [input \in {} |-> NoDetection]

\* patterns.sort((a, b) => b.priority - a.priority)
sortPatterns(patterns) ==
    StableSort(patterns,
               {p \in Range(patterns) \X Range(patterns) : p[1].priority > p[2].priority})

\* The constructor: config holds the keys of the PatternConfig passed in.
NewInputPatternManager(config) ==
    LET full ==
            [enabled |->
                [number |-> IF "enableNumberDetection" \in DOMAIN config
                            THEN config.enableNumberDetection ELSE TRUE,
                 text |-> IF "enableTextDetection" \in DOMAIN config
                          THEN config.enableTextDetection ELSE TRUE,
                 boolean |-> IF "enableBooleanDetection" \in DOMAIN config
                             THEN config.enableBooleanDetection ELSE TRUE,
                 math_expression |-> IF "enableMathExpressions" \in DOMAIN config
                                     THEN config.enableMathExpressions ELSE TRUE,
                 variable_assignment |-> IF "enableVariableAssignments" \in DOMAIN config
                                         THEN config.enableVariableAssignments ELSE TRUE],
             customPatterns |-> IF "customPatterns" \in DOMAIN config
                                THEN config.customPatterns ELSE <<>>,
             patternPriorities |-> IF "patternPriorities" \in DOMAIN config
                                   THEN config.patternPriorities
                                   ELSE [n \in {} |-> 0],
             confidenceThreshold |-> IF "confidenceThreshold" \in DOMAIN config
                                     THEN config.confidenceThreshold
                                     ELSE DefaultConfidenceThreshold]
    IN  [config |-> full,
         patterns |-> sortPatterns(full.customPatterns),
         detectionCache |-> EmptyCache]

\* isPatternEnabled that takes every pattern for enabled.
isPatternEnabled_always(pm, pattern) == TRUE

isPatternEnabled(pm, pattern) ==
    IF pattern.name \in DOMAIN pm.config.enabled
    THEN pm.config.enabled[pattern.name] ELSE TRUE

\* The priority override is skipped when the configured priority is 0.
registerBuiltinPatterns(pm, patterns) ==
    LET enabledIdx == {i \in DOMAIN patterns : isPatternEnabled(pm, patterns[i])}
        enabledPatterns == [k \in 1..Cardinality(enabledIdx) |->
            patterns[CHOOSE i \in enabledIdx : Cardinality({j \in enabledIdx : j < i}) = k - 1]]
        override(pattern) ==
            IF /\ pattern.name \in DOMAIN pm.config.patternPriorities
               /\ pm.config.patternPriorities[pattern.name] # 0
            THEN [pattern EXCEPT !.priority = pm.config.patternPriorities[pattern.name]]
            ELSE pattern
    IN  [pm EXCEPT !.patterns =
            sortPatterns(@ \o [k \in DOMAIN enabledPatterns |-> override(enabledPatterns[k])])]

Min(a, b) == IF a < b THEN a ELSE b

\* calculateConfidence without the bonuses.
calculateConfidence_base(pattern, match, input) == 800

calculateConfidence(pattern, match, input) ==
    Min(800 + (IF match.groups[1] = trim(input) THEN 150 ELSE 0)
            + (IF isComplete(pattern.name, input) THEN 50 ELSE 0)
            + pattern.priority,
        1000)

\* The loop of detectPattern over the patterns from index i on.
RECURSIVE detectFrom(_, _, _, _)
detectFrom(pm, input, i, bestResult) ==
    IF i > Len(pm.patterns) THEN bestResult
    ELSE With(pm.patterns[i], LAMBDA pattern :
         With(PatternRegex(pattern.name, input), LAMBDA match :
         With(calculateConfidence(pattern, match, input), LAMBDA confidence :
         IF match.matched /\ confidence >= pm.config.confidenceThreshold
         THEN IF confidence >= PerfectConfidence
              THEN Detection(pattern, match, confidence)
              ELSE IF ~bestResult.found \/ confidence > bestResult.confidence
              THEN detectFrom(pm, input, i + 1, Detection(pattern, match, confidence))
              ELSE detectFrom(pm, input, i + 1, bestResult)
         ELSE detectFrom(pm, input, i + 1, bestResult))))

\* detectPattern: the manager afterwards (its cache) and the result.
detectPattern(pm, input) ==
    IF input \in DOMAIN pm.detectionCache
    THEN [pm |-> pm, result |-> pm.detectionCache[input]]
    ELSE With(detectFrom(pm, input, 1, NoDetection), LAMBDA result :
         [pm |-> [pm EXCEPT !.detectionCache =
                     [k \in DOMAIN @ \cup {input} |->
                         IF k = input THEN result ELSE @[k]]],
          result |-> result])

\* initializePatterns: the custom patterns of the config are pushed.
initializePatterns(pm) ==
    [pm EXCEPT !.patterns = sortPatterns(@ \o pm.config.customPatterns)]

clearCache(pm) == [pm EXCEPT !.detectionCache = EmptyCache]

\* { ...this.config, ...newConfig }: newConfig holds the keys that were given.
MergeConfig(config, newConfig) ==
    [enabled |->
        [number |-> IF "enableNumberDetection" \in DOMAIN newConfig
                    THEN newConfig.enableNumberDetection ELSE config.enabled.number,
         text |-> IF "enableTextDetection" \in DOMAIN newConfig
                  THEN newConfig.enableTextDetection ELSE config.enabled.text,
         boolean |-> IF "enableBooleanDetection" \in DOMAIN newConfig
                     THEN newConfig.enableBooleanDetection ELSE config.enabled.boolean,
         math_expression |-> IF "enableMathExpressions" \in DOMAIN newConfig
                             THEN newConfig.enableMathExpressions
                             ELSE config.enabled.math_expression,
         variable_assignment |-> IF "enableVariableAssignments" \in DOMAIN newConfig
                                 THEN newConfig.enableVariableAssignments
                                 ELSE config.enabled.variable_assignment],
     customPatterns |-> IF "customPatterns" \in DOMAIN newConfig
                        THEN newConfig.customPatterns ELSE config.customPatterns,
     patternPriorities |-> IF "patternPriorities" \in DOMAIN newConfig
                           THEN newConfig.patternPriorities ELSE config.patternPriorities,
     confidenceThreshold |-> IF "confidenceThreshold" \in DOMAIN newConfig
                             THEN newConfig.confidenceThreshold
                             ELSE config.confidenceThreshold]

updateConfig(pm, newConfig) ==
    initializePatterns(clearCache([pm EXCEPT !.config = MergeConfig(@, newConfig),
                                             !.patterns = <<>>]))

\* getBlockInstructions: the detected pattern's parse step on its match.
getBlockInstructions(pm, input) ==
    With(detectPattern(pm, input), LAMBDA d :
    [pm |-> d.pm,
     instruction |-> IF d.result.found
                     THEN parseInput(d.result.pattern.name, d.result.match)
                     ELSE NoInstruction])

(***************************************************************************)
(* BasicScopeAnalyzer (scope-analyzer.ts)                                  *)
(***************************************************************************)
isProcedureDefinitionBlock(W, b) ==
    W.blocks[b].type \in {"procedures_defnoreturn", "procedures_defreturn"}

\* block.getParent(): 0 when the block has none.
getParent(W, b) ==
    IF \E l \in W.links : l[2][1] = b
    THEN (CHOOSE l \in W.links : l[2][1] = b)[1][1]
    ELSE 0

\* getVars() of a procedure definition; the blocks of the model carry no
\* ARG fields.
scopeProcedureParameters(W, b) ==
    IF isProcedureDefinitionBlock(W, b) THEN W.blocks[b].params ELSE <<>>

RECURSIVE findEnclosingProcedure(_, _)
findEnclosingProcedure(W, currentBlock) ==
    IF currentBlock = 0 THEN 0
    ELSE IF isProcedureDefinitionBlock(W, currentBlock) THEN currentBlock
    ELSE findEnclosingProcedure(W, getParent(W, currentBlock))

getEnclosingProcedureFromSelection(W) == findEnclosingProcedure(W, W.selected)

getLocalVariablesFromSelection(W) ==
    IF getEnclosingProcedureFromSelection(W) # 0
    THEN scopeProcedureParameters(W, getEnclosingProcedureFromSelection(W))
    ELSE <<>>

RECURSIVE ConcatAll(_)
ConcatAll(seqs) == IF seqs = <<>> THEN <<>> ELSE Head(seqs) \o ConcatAll(Tail(seqs))

getAllProcedureParameters(W) ==
    Dedupe(ConcatAll([b \in DOMAIN W.blocks |-> scopeProcedureParameters(W, b)]))

getLocalVariablesInScope(W) ==
    IF Len(getLocalVariablesFromSelection(W)) > 0
    THEN getLocalVariablesFromSelection(W)
    ELSE getAllProcedureParameters(W)

(***************************************************************************)
(* WorkspaceOptionGenerator (option-generator.ts).  An Option is           *)
(* [blockType, displayText], both texts.                                   *)
(***************************************************************************)
Option(blockType, displayText) == [blockType |-> blockType, displayText |-> displayText]

\* createOption of smart-option-generator.ts
createOption(text) == Option(text, text)

\* `${option.blockType}:${option.displayText}`
OptionKey(option) == option.blockType \o <<":">> \o option.displayText

\* options.filter(...) with the set of keys seen
RECURSIVE DedupeByKey(_, _)
DedupeByKey(options, seen) ==
    IF options = <<>> THEN <<>>
    ELSE IF OptionKey(Head(options)) \in seen THEN DedupeByKey(Tail(options), seen)
    ELSE <<Head(options)>> \o DedupeByKey(Tail(options), seen \cup {OptionKey(Head(options))})

\* blockType.replace(/_/g, ' ')
blockTypeToDisplayText(blockType) ==
    [i \in DOMAIN blockType |-> IF blockType[i] = "_" THEN " " ELSE blockType[i]]

shouldSkipBlock(blockType) ==
    \/ startsWith(blockType, <<"p", "r", "o", "c", "e", "d", "u", "r", "e", "s", "_">>)
    \/ blockType = Str["variables_get"]
    \/ blockType = Str["variables_set"]
    \/ startsWith(blockType, <<"_">>)

getBuiltinBlockOptions(W) ==
    LET option(t) ==
            IF shouldSkipBlock(Str[t]) THEN <<>>
            ELSE IF \E alias \in W.typeblock[t] : alias # <<>>
            THEN <<Option(Str[t], CHOOSE alias \in W.typeblock[t] : TRUE)>>
            ELSE <<Option(Str[t], blockTypeToDisplayText(Str[t]))>>
    IN  ConcatAll([i \in DOMAIN BlockOrder |->
                      IF BlockOrder[i] \in W.registered THEN option(BlockOrder[i]) ELSE <<>>])

VariableOptionsOf(name) ==
    <<createOption(Str["get "] \o name), createOption(Str["set "] \o name \o Str[" to"])>>

\* hasScopeAnalyzer: whether setScopeAnalyzer was called on the generator.
getVariableOptions(W, hasScopeAnalyzer) ==
    ConcatAll([i \in DOMAIN W.variables |-> VariableOptionsOf(W.variables[i])])
        \o (IF hasScopeAnalyzer
            THEN LET localVars == getLocalVariablesInScope(W)
                 IN  ConcatAll([i \in DOMAIN localVars |-> VariableOptionsOf(localVars[i])])
            ELSE <<>>)

JoinParams(params) ==
    ConcatAll([i \in DOMAIN params |->
                  IF i = 1 THEN params[i] ELSE Str[", "] \o params[i]])

getProcedureOptions(W) ==
    LET options(b) ==
            LET procName == getFieldValue(W, b, "NAME")
            IN  IF ~isProcedureDefinitionBlock(W, b) \/ "NAME" \notin Def(W, b).fields THEN <<>>
                ELSE IF trim(procName) = <<>> THEN <<>>
                ELSE <<createOption(procName)>>
                     \o (IF Len(W.blocks[b].params) > 0
                         THEN <<createOption(procName \o <<"(">>
                                             \o JoinParams(W.blocks[b].params) \o <<")">>)>>
                         ELSE <<>>)
    IN  ConcatAll([b \in DOMAIN W.blocks |-> options(b)])

\* generateOptions without the filter on the keys seen.
generateOptions_raw(W, hasScopeAnalyzer) ==
    getBuiltinBlockOptions(W) \o getVariableOptions(W, hasScopeAnalyzer)
        \o getProcedureOptions(W)

generateOptions(W, hasScopeAnalyzer) ==
    DedupeByKey(getBuiltinBlockOptions(W) \o getVariableOptions(W, hasScopeAnalyzer)
                    \o getProcedureOptions(W), {})

(***************************************************************************)
(* Number texts.  The numbers typed in the model have no fraction, so      *)
(* parseFloat and String are exact integer conversions.                    *)
(***************************************************************************)
DigitValue ==
    ("0" :> 0 @@ "1" :> 1 @@ "2" :> 2 @@ "3" :> 3 @@ "4" :> 4
     @@ "5" :> 5 @@ "6" :> 6 @@ "7" :> 7 @@ "8" :> 8 @@ "9" :> 9)

DigitOf == <<"0", "1", "2", "3", "4", "5", "6", "7", "8", "9">>

RECURSIVE ParseNat(_)
ParseNat(s) ==
    IF s = <<>> THEN 0
    ELSE 10 * ParseNat(SubSeq(s, 1, Len(s) - 1)) + DigitValue[s[Len(s)]]

\* parseFloat of a text of the number grammar without a point
parseFloat(s) == IF s[1] = "-" THEN 0 - ParseNat(Tail(s)) ELSE ParseNat(s)

RECURSIVE FormatNat(_)
FormatNat(n) ==
    IF n < 10 THEN <<DigitOf[n + 1]>>
    ELSE Append(FormatNat(n \div 10), DigitOf[(n % 10) + 1])

\* String(n)
String(n) == IF n < 0 THEN <<"-">> \o FormatNat(0 - n) ELSE FormatNat(n)

Abs(n) == IF n < 0 THEN 0 - n ELSE n

(***************************************************************************)
(* generateSuggestions of the built-in patterns, and the manager's         *)
(* getSuggestions (only the text of each InputSuggestion is used).         *)
(***************************************************************************)
NumberPattern_generateSuggestions(match) ==
    LET value == match.groups[1]
        num == parseFloat(value)
    IN  <<value, String(num + 1), String(num - 1), String(num * 10), String(Abs(num))>>

TextPattern_generateSuggestions(match) ==
    LET content == match.groups[2]
    IN  <<<<"\"">> \o content \o <<"\"">>, <<"'">> \o content \o <<"'">>,
          Str["\"hello world\""], Str["\"example text\""]>>

BooleanPattern_generateSuggestions == <<Str["true"], Str["false"]>>

MathExpressionPattern_generateSuggestions(match) ==
    LET left == match.groups[2]
        op == match.groups[3]
        right == match.groups[4]
        leftNum == parseFloat(left)
        rightNum == parseFloat(right)
        others == FilterSeq(<<"+", "-", "*", "/">>, Operators \ {op[1]})
    IN  <<match.groups[1]>>
        \o [i \in DOMAIN others |-> left \o <<" ", others[i], " ">> \o right]
        \o <<String(leftNum + 1) \o <<" ">> \o op \o <<" ">> \o right,
             left \o <<" ">> \o op \o <<" ">> \o String(rightNum + 1),
             String(leftNum * 10) \o <<" ">> \o op \o <<" ">> \o right>>

VariableAssignmentPattern_generateSuggestions(match) ==
    LET varName == match.groups[2]
        value == match.groups[3]
    IN  <<Str["set "] \o varName \o Str[" to "] \o value,
          Str["set "] \o varName \o Str[" to 0"],
          Str["set "] \o varName \o Str[" to \"text\""],
          Str["set "] \o varName \o Str[" to true"],
          Str["set myVar to 42"], Str["set count to 0"]>>

generateSuggestions(name, match) ==
    CASE name = "number" -> NumberPattern_generateSuggestions(match)
      [] name = "text" -> TextPattern_generateSuggestions(match)
      [] name = "boolean" -> BooleanPattern_generateSuggestions
      [] name = "math_expression" -> MathExpressionPattern_generateSuggestions(match)
      [] name = "variable_assignment" -> VariableAssignmentPattern_generateSuggestions(match)

getPatternExample(name) ==
    CASE name = "number" -> Str["42"]
      [] name = "text" -> Str["\"hello world\""]
      [] name = "boolean" -> Str["true"]
      [] name = "math_expression" -> Str["2 + 3"]
      [] name = "variable_assignment" -> Str["set x to 5"]
      [] OTHER -> Str["example"]

testCompletions == <<<<>>, Str["0"], Str["1"], Str["true"], Str["false"], <<"\"">>, <<")">>>>

isPartialMatch(input, pattern) ==
    LET trimmedInput == trim(input)
    IN  IF Len(trimmedInput) = 0 THEN FALSE
        ELSE \E i \in DOMAIN testCompletions :
                PatternRegex(pattern.name, trimmedInput \o testCompletions[i]).matched

\* getSuggestions: the suggested texts, in order.
getSuggestions(pm, input) ==
    ConcatAll([i \in DOMAIN pm.patterns |->
        (IF PatternRegex(pm.patterns[i].name, input).matched
         THEN generateSuggestions(pm.patterns[i].name,
                                  PatternRegex(pm.patterns[i].name, input))
         ELSE <<>>)
        \o (IF isPartialMatch(input, pm.patterns[i])
            THEN <<getPatternExample(pm.patterns[i].name)>> ELSE <<>>)])

(***************************************************************************)
(* SmartOptionGenerator (smart-option-generator.ts).  A generator is       *)
(*   patternManager, lastInput, lastSuggestions, hasScopeAnalyzer (set by  *)
(*   TypeBlocking.setupDynamicOptions) and kind, the class of the object.  *)
(***************************************************************************)
NewSmartOptionGenerator(patternConfig) ==
    [patternManager |-> registerBuiltinPatterns(NewInputPatternManager(patternConfig),
                                                getBuiltinPatterns),
     lastInput |-> <<>>,
     lastSuggestions |-> <<>>,
     hasScopeAnalyzer |-> FALSE,
     kind |-> "smart"]

IncludesAny(s, parts) == \E part \in parts : includes(s, Str[part])

isPartialPatternInput(input) ==
    IF Len(input) = 0 THEN FALSE
    ELSE \/ AllIn(input, Digits)
         \/ input[1] \in Quotes
         \/ BooleanRegex(input).matched
         \/ LET d == RunEnd(input, 1, Digits)
                o == RunEnd(input, d, Whitespace)
            IN  d > 1 /\ o <= Len(input) /\ input[o] \in Operators
         \/ startsWith(input, Str["set"]) /\ RunEnd(input, 4, Whitespace) > 4
         \/ startsWith(input, Str["get"]) /\ RunEnd(input, 4, Whitespace) > 4
         \/ startsWith(input, Str["when"]) /\ RunEnd(input, 5, Whitespace) > 5

getPatternExamples(W, input) ==
    (IF Len(input) >= 1 /\ input[1] \in Digits
     THEN <<Str["42"], Str["3.14"], input \o Str[" + 1"], input \o Str[" * 2"]>> ELSE <<>>)
    \o (IF Len(input) >= 1 /\ input[1] \in Quotes
        THEN <<Str["\"hello world\""], Str["'example text'"]>> ELSE <<>>)
    \o (IF Len(input) >= 1 /\ toLowerCase(<<input[1]>>) \in {Str["t"], Str["f"]}
        THEN <<Str["true"], Str["false"]>> ELSE <<>>)
    \o (IF startsWith(toLowerCase(input), Str["set"])
        THEN <<Str["set x to 5"], Str["set name to \"hello\""], Str["set flag to true"]>>
        ELSE <<>>)
    \o (IF startsWith(toLowerCase(input), Str["get"])
        THEN [i \in DOMAIN W.variables |-> Str["get "] \o W.variables[i]] ELSE <<>>)

\* getPatternSuggestions: the manager afterwards and the suggestions.
getPatternSuggestions(gen, W, input) ==
    IF input = <<>> THEN [pm |-> gen.patternManager, options |-> <<>>]
    ELSE With(detectPattern(gen.patternManager, input), LAMBDA d :
         With((IF d.result.found THEN <<input>> ELSE <<>>)
                  \o getSuggestions(d.pm, input)
                  \o (IF isPartialPatternInput(input)
                      THEN getPatternExamples(W, input) ELSE <<>>),
              LAMBDA texts :
         [pm |-> d.pm,
          options |-> DedupeByKey([i \in DOMAIN texts |-> createOption(texts[i])], {})]))

getContextualBonus(option, input) ==
    LET lower == toLowerCase(option)
    IN  (IF Len(input) >= 1 /\ input[1] \in Digits
            /\ IncludesAny(lower, {"math", "number", "arithmetic", "calculate"})
         THEN 15 ELSE 0)
        + (IF Len(input) >= 1 /\ input[1] \in Quotes
              /\ IncludesAny(lower, {"text", "string", "concat", "join"})
           THEN 15 ELSE 0)
        + (IF (startsWith(toLowerCase(input), Str["true"])
                  \/ startsWith(toLowerCase(input), Str["false"]))
              /\ IncludesAny(lower, {"logic", "boolean", "compare", "if"})
           THEN 15 ELSE 0)
        + (IF IncludesAny(toLowerCase(input), {"set", "get", "var"})
              /\ IncludesAny(lower, {"variable", "var", "get", "set"})
           THEN 15 ELSE 0)

calculateRelevanceScore(option, input) ==
    With(toLowerCase(option), LAMBDA lowerOption :
    With(toLowerCase(input), LAMBDA lowerInput :
    With((IF startsWith(lowerOption, lowerInput) THEN 50 ELSE 0)
             + (IF includes(lowerOption, lowerInput) THEN 25 ELSE 0)
             + getContextualBonus(option, input)
             - (IF Len(input) < 3 /\ Len(option) > 20 THEN 10 ELSE 0),
         LAMBDA score :
    IF lowerOption = lowerInput THEN 100
    ELSE IF score < 0 THEN 0 ELSE score)))

filterAndRankOptions(options, input) ==
    IF input = <<>> THEN options
    ELSE With([i \in DOMAIN options |->
                  calculateRelevanceScore(options[i].displayText, input)],
              LAMBDA score :
         With(FilterSeq([i \in DOMAIN options |-> i],
                        {i \in DOMAIN options : score[i] > 0}),
              LAMBDA kept :
         With(StableSort(kept, {p \in Range(kept) \X Range(kept) :
                                   score[p[1]] > score[p[2]]}),
              LAMBDA sorted :
         [k \in DOMAIN sorted |-> options[sorted[k]]])))

generalOptions ==
    <<Str["if"], Str["repeat"], Str["set variable"], Str["math"], Str["text"],
      Str["true"], Str["false"]>>

\* The last loop of combineOptions.
RECURSIVE addGeneralOptions(_, _, _)
addGeneralOptions(combined, seen, texts) ==
    IF texts = <<>> THEN combined
    ELSE LET option == createOption(Head(texts))
         IN  IF OptionKey(option) \notin seen /\ Len(combined) < 10
             THEN addGeneralOptions(Append(combined, option),
                                    seen \cup {OptionKey(option)}, Tail(texts))
             ELSE addGeneralOptions(combined, seen, Tail(texts))

combineOptions(patternSuggestions, filteredOptions, input) ==
    With(IF 20 - Len(patternSuggestions) > 10 THEN 20 - Len(patternSuggestions) ELSE 10,
         LAMBDA maxFilteredOptions :
    With(DedupeByKey(patternSuggestions \o Take(filteredOptions, maxFilteredOptions), {}),
         LAMBDA combined :
    IF Len(combined) < 5 /\ Len(input) < 3
    THEN addGeneralOptions(combined, {OptionKey(combined[i]) : i \in DOMAIN combined},
                           generalOptions)
    ELSE combined))

\* The uncached part of generateOptionsForInput.
computeOptionsForInput(gen, W, input) ==
    With(trim(input), LAMBDA trimmedInput :
    With(generateOptions(W, gen.hasScopeAnalyzer), LAMBDA baseOptions :
    With(getPatternSuggestions(gen, W, trimmedInput), LAMBDA p :
    With(filterAndRankOptions(baseOptions, trimmedInput), LAMBDA filteredOptions :
    [pm |-> p.pm,
     options |-> combineOptions(p.options, filteredOptions, trimmedInput)]))))

\* generateOptionsForInput: the generator afterwards and the options returned.
generateOptionsForInput(gen, W, input) ==
    IF input = gen.lastInput /\ Len(gen.lastSuggestions) > 0
    THEN [gen |-> gen, options |-> gen.lastSuggestions]
    ELSE With(computeOptionsForInput(gen, W, input), LAMBDA c :
         [gen |-> [gen EXCEPT !.patternManager = c.pm,
                              !.lastInput = input,
                              !.lastSuggestions = c.options],
          options |-> c.options])

(***************************************************************************)
(* Connection strategies (connection-strategies.ts)                        *)
(***************************************************************************)
areTypesCompatible(W, c1, c2) ==
    IF c1[1] = 0 \/ c2[1] = 0 THEN FALSE
    ELSE IF ~HasConn(W, c1) \/ ~HasConn(W, c2) THEN FALSE
    ELSE LET types1 == ConnCheck(W, c1)
             types2 == ConnCheck(W, c2)
         IN  IF types1 = NoCheck \/ types2 = NoCheck THEN TRUE
             ELSE \E type \in types1 : type \in types2

isConnectionAvailable(W, c) == HasConn(W, c) /\ ~isConnected(W, c)

\* ---- StatementSequenceConnector
StatementSequence_canConnect(W, newBlock, targetBlock) ==
    IF ~HasConn(W, Prev(newBlock)) THEN FALSE
    ELSE IF ~HasConn(W, Nxt(targetBlock)) \/ isConnected(W, Nxt(targetBlock)) THEN FALSE
    ELSE areTypesCompatible(W, Prev(newBlock), Nxt(targetBlock))

\* A connector that links the new block's trailing socket to the target's
\* leading socket instead.
StatementSequence_connect_before(W, newBlock, targetBlock) ==
    IF ~StatementSequence_canConnect(W, newBlock, targetBlock)
    THEN [ws |-> W, success |-> FALSE]
    ELSE With(hostConnect(W, Nxt(newBlock), Prev(targetBlock)), LAMBDA r :
         [ws |-> r.ws, success |-> ~r.threw])

StatementSequence_connect(W, newBlock, targetBlock) ==
    IF ~StatementSequence_canConnect(W, newBlock, targetBlock)
    THEN [ws |-> W, success |-> FALSE]
    ELSE With(hostConnect(W, Prev(newBlock), Nxt(targetBlock)), LAMBDA r :
         [ws |-> r.ws, success |-> ~r.threw])

\* ---- ValueInputConnector
findCompatibleInput(W, newBlock, targetBlock) ==
    IF ~HasConn(W, Out(newBlock)) THEN NoConnection
    ELSE With(Def(W, targetBlock).inputs, LAMBDA ins :
         With([i \in DOMAIN ins |->
                  /\ isConnectionAvailable(W, <<targetBlock, ins[i].name>>)
                  /\ areTypesCompatible(W, Out(newBlock), <<targetBlock, ins[i].name>>)],
              LAMBDA ok :
         IF \E i \in DOMAIN ins : ok[i]
         THEN <<targetBlock, ins[CHOOSE i \in DOMAIN ins :
                                    ok[i] /\ \A j \in 1..(i - 1) : ~ok[j]].name>>
         ELSE NoConnection))

ValueInput_canConnect(W, newBlock, targetBlock) ==
    IF ~HasConn(W, Out(newBlock)) THEN FALSE
    ELSE findCompatibleInput(W, newBlock, targetBlock) # NoConnection

ValueInput_connect(W, newBlock, targetBlock) ==
    IF ~HasConn(W, Out(newBlock)) THEN [ws |-> W, success |-> FALSE]
    ELSE With(findCompatibleInput(W, newBlock, targetBlock), LAMBDA compatibleInput :
         IF compatibleInput = NoConnection THEN [ws |-> W, success |-> FALSE]
         ELSE With(hostConnect(W, Out(newBlock), compatibleInput), LAMBDA r :
              [ws |-> r.ws, success |-> ~r.threw]))

\* ---- StatementInsertionConnector
StatementInsertion_canConnect(W, newBlock, targetBlock) ==
    IF ~HasConn(W, Nxt(newBlock)) \/ ~HasConn(W, Prev(newBlock)) THEN FALSE
    ELSE IF ~HasConn(W, Prev(targetBlock)) THEN FALSE
    ELSE /\ areTypesCompatible(W, Nxt(newBlock), Prev(targetBlock))
         /\ areTypesCompatible(W, Prev(newBlock), Prev(targetBlock))

StatementInsertion_connect(W, newBlock, targetBlock) ==
    IF ~StatementInsertion_canConnect(W, newBlock, targetBlock)
    THEN [ws |-> W, success |-> FALSE]
    ELSE With(Prev(targetBlock), LAMBDA targetPrevious :
         With(targetConnection(W, targetPrevious), LAMBDA targetParentConnection :
         With(IF targetParentConnection # NoConnection
              THEN hostConnect(disconnect(W, targetPrevious),
                               Prev(newBlock), targetParentConnection)
              ELSE [ws |-> W, threw |-> FALSE],
              LAMBDA r1 :
         IF r1.threw THEN [ws |-> r1.ws, success |-> FALSE]
         ELSE With(hostConnect(r1.ws, Nxt(newBlock), targetPrevious), LAMBDA r2 :
              [ws |-> r2.ws, success |-> ~r2.threw]))))

\* ---- WrapperConnector
getStatementInputs(W, block) ==
    LET ins == Def(W, block).inputs
        idx == FilterSeq([i \in DOMAIN ins |-> i],
                         {i \in DOMAIN ins : ins[i].kind = "statement"})
    IN  [k \in DOMAIN idx |-> <<block, ins[idx[k]].name>>]

Wrapper_canConnect(W, newBlock, targetBlock) ==
    With(getStatementInputs(W, newBlock), LAMBDA statementInputs :
    IF Len(statementInputs) = 0 THEN FALSE
    ELSE IF ~HasConn(W, Prev(targetBlock)) THEN FALSE
    ELSE areTypesCompatible(W, Prev(targetBlock), statementInputs[1]))

Wrapper_connect(W, newBlock, targetBlock) ==
    IF ~Wrapper_canConnect(W, newBlock, targetBlock)
    THEN [ws |-> W, success |-> FALSE]
    ELSE With(getStatementInputs(W, newBlock), LAMBDA statementInputs :
         With(Prev(targetBlock), LAMBDA targetPrevious :
         With(targetConnection(W, targetPrevious), LAMBDA targetParentConnection :
         With(IF targetParentConnection # NoConnection
              THEN disconnect(W, targetPrevious) ELSE W,
              LAMBDA W1 :
         With(IF /\ targetParentConnection # NoConnection
                 /\ HasConn(W, Prev(newBlock))
                 /\ areTypesCompatible(W1, Prev(newBlock), targetParentConnection)
              THEN hostConnect(W1, Prev(newBlock), targetParentConnection)
              ELSE [ws |-> W1, threw |-> FALSE],
              LAMBDA r1 :
         IF r1.threw THEN [ws |-> r1.ws, success |-> FALSE]
         ELSE With(hostConnect(r1.ws, targetPrevious, statementInputs[1]), LAMBDA r2 :
              [ws |-> r2.ws, success |-> ~r2.threw]))))))

\* ---- The strategies by name, with their priorities.
priority(strategy) ==
    CASE strategy = "StatementSequence" -> 90
      [] strategy = "ValueInput" -> 80
      [] strategy = "StatementInsertion" -> 70
      [] strategy = "Wrapper" -> 60

canConnect(strategy, W, newBlock, targetBlock) ==
    CASE strategy = "StatementSequence" -> StatementSequence_canConnect(W, newBlock, targetBlock)
      [] strategy = "ValueInput" -> ValueInput_canConnect(W, newBlock, targetBlock)
      [] strategy = "StatementInsertion" -> StatementInsertion_canConnect(W, newBlock, targetBlock)
      [] strategy = "Wrapper" -> Wrapper_canConnect(W, newBlock, targetBlock)

connect(strategy, W, newBlock, targetBlock) ==
    CASE strategy = "StatementSequence" -> StatementSequence_connect(W, newBlock, targetBlock)
      [] strategy = "ValueInput" -> ValueInput_connect(W, newBlock, targetBlock)
      [] strategy = "StatementInsertion" -> StatementInsertion_connect(W, newBlock, targetBlock)
      [] strategy = "Wrapper" -> Wrapper_connect(W, newBlock, targetBlock)

getDefaultStrategies ==
    <<"StatementSequence", "ValueInput", "StatementInsertion", "Wrapper">>

\* strategies.sort((a, b) => b.priority - a.priority)
SortByPriority(strategies) ==
    StableSort(strategies,
               {p \in Range(strategies) \X Range(strategies) : priority(p[1]) > priority(p[2])})

(***************************************************************************)
(* ConnectionManager (connection-manager.ts)                               *)
(***************************************************************************)
NoPosition == [x |-> -1, y |-> -1, defined |-> FALSE]
Position(x, y) == [x |-> x, y |-> y, defined |-> TRUE]

DefaultConnectionRadius == 200
DefaultMaxNearbyBlocks == 10

\* The constructor's config, given the ConnectionConfig passed in (a record
\* holding the keys that were given).
ConnectionManagerConfig(config) ==
    [enableAutoConnection |->
        IF "enableAutoConnection" \in DOMAIN config THEN config.enableAutoConnection ELSE TRUE,
     connectionRadius |->
        IF "connectionRadius" \in DOMAIN config THEN config.connectionRadius
        ELSE DefaultConnectionRadius,
     maxNearbyBlocks |->
        IF "maxNearbyBlocks" \in DOMAIN config THEN config.maxNearbyBlocks
        ELSE DefaultMaxNearbyBlocks,
     strategies |->
        SortByPriority(IF "strategies" \in DOMAIN config THEN config.strategies
                       ELSE getDefaultStrategies)]

connectionStrategies(cm) == cm.strategies

\* (clientX - divRect.left) / scale + viewLeft; the model's coordinates are
\* multiples of the scale, so the division is exact.
clientToWorkspaceCoordinates(W, clientX, clientY) ==
    Position((clientX - W.view.divLeft) \div W.view.scale + W.view.viewLeft,
             (clientY - W.view.divTop) \div W.view.scale + W.view.viewTop)

\* The square of calculateDistance.
DistanceSquared(point1, point2) ==
    (point1.x - point2.x) * (point1.x - point2.x)
        + (point1.y - point2.y) * (point1.y - point2.y)

getRelativeToSurfaceXY(W, b) == Position(W.blocks[b].x, W.blocks[b].y)

\* workspace.getAllBlocks(false): the blocks in the host's order.
getAllBlocks(W) == [i \in 1..Len(W.blocks) |-> i]

findNearbyBlocks(W, cm, newBlock, cursorPosition) ==
    LET searchPosition ==
            IF cursorPosition.defined
            THEN clientToWorkspaceCoordinates(W, cursorPosition.x, cursorPosition.y)
            ELSE getRelativeToSurfaceXY(W, newBlock)
        distance2(b) == DistanceSquared(searchPosition, getRelativeToSurfaceXY(W, b))
        near == {b \in 1..Len(W.blocks) :
                    /\ b # newBlock
                    /\ distance2(b) <= cm.connectionRadius * cm.connectionRadius}
        nearbyBlocks == FilterSeq(getAllBlocks(W), near)
        sorted == StableSort(nearbyBlocks,
                             {p \in near \X near : distance2(p[1]) < distance2(p[2])})
    IN  Take(sorted, cm.maxNearbyBlocks)

\* A ConnectionContext: selectedBlock (0 when unset), cursorPosition,
\* nearbyBlocks (with hasNearby FALSE when unset).
NoContext ==
    [selectedBlock |-> 0, cursorPosition |-> NoPosition,
     nearbyBlocks |-> <<>>, hasNearby |-> FALSE]

buildConnectionContext(W, cm, newBlock, clientPos, providedContext) ==
    LET c1 == IF providedContext.selectedBlock = 0 /\ W.selected # 0
              THEN [providedContext EXCEPT !.selectedBlock = W.selected]
              ELSE providedContext
        c2 == IF clientPos.defined THEN [c1 EXCEPT !.cursorPosition = clientPos] ELSE c1
    IN  IF ~c2.hasNearby
        THEN [c2 EXCEPT !.nearbyBlocks = findNearbyBlocks(W, cm, newBlock, c2.cursorPosition),
                        !.hasNearby = TRUE]
        ELSE c2

countConnectedInputs(W, block) ==
    Cardinality({i \in DOMAIN Def(W, block).inputs :
                    isConnected(W, <<block, Def(W, block).inputs[i].name>>)})

\* The comparator of getPriorizedTargetBlocks, as the set of pairs it orders.
SmartLess(W, cm, newBlock, blocks) ==
    IF "ValueInput" \notin Range(connectionStrategies(cm)) THEN {}
    ELSE {p \in blocks \X blocks :
            With(ValueInput_canConnect(W, newBlock, p[1]), LAMBDA aCanConnect :
            With(ValueInput_canConnect(W, newBlock, p[2]), LAMBDA bCanConnect :
                \/ aCanConnect /\ ~bCanConnect
                \/ /\ aCanConnect /\ bCanConnect
                   /\ countConnectedInputs(W, p[1]) < countConnectedInputs(W, p[2])))}

getPriorizedTargetBlocks(W, cm, newBlock, context) ==
    With(IF context.selectedBlock # 0 THEN <<context.selectedBlock>> ELSE <<>>,
         LAMBDA first :
    With(FilterSeq(context.nearbyBlocks,
                   Range(context.nearbyBlocks) \ {context.selectedBlock}),
         LAMBDA nearbyUnselected :
    With(StableSort(nearbyUnselected,
                    SmartLess(W, cm, newBlock, Range(nearbyUnselected))),
         LAMBDA smartSorted :
    Dedupe(first \o (IF context.hasNearby THEN smartSorted ELSE <<>>)))))

NoResult == [success |-> FALSE, strategy |-> "none", target |-> 0]

\* The two loops of findAndMakeConnection over (target, strategy) pairs; log
\* records every canConnect and connect call made, its outcome, and whether
\* the call left the workspace's connections as they were.
RECURSIVE TryPairs(_, _, _, _)
TryPairs(W, newBlock, pairs, log) ==
    IF pairs = <<>> THEN [ws |-> W, result |-> NoResult, log |-> log]
    ELSE With(Head(pairs)[1], LAMBDA targetBlock :
         With(Head(pairs)[2], LAMBDA strategy :
         IF canConnect(strategy, W, newBlock, targetBlock)
         THEN With(connect(strategy, W, newBlock, targetBlock), LAMBDA r :
              IF r.success
              THEN [ws |-> r.ws,
                    result |-> [success |-> TRUE, strategy |-> strategy,
                                target |-> targetBlock],
                    log |-> Append(log, <<targetBlock, strategy, "success",
                                          r.ws.links = W.links>>)]
              ELSE TryPairs(r.ws, newBlock, Tail(pairs),
                            Append(log, <<targetBlock, strategy, "failed",
                                          r.ws.links = W.links>>)))
         ELSE TryPairs(W, newBlock, Tail(pairs),
                       Append(log, <<targetBlock, strategy, "no", TRUE>>))))

RECURSIVE PairsOf(_, _)
PairsOf(targets, strategies) ==
    IF targets = <<>> THEN <<>>
    ELSE [i \in DOMAIN strategies |-> <<Head(targets), strategies[i]>>]
             \o PairsOf(Tail(targets), strategies)

findAndMakeConnection(W, cm, newBlock, context) ==
    With(getPriorizedTargetBlocks(W, cm, newBlock, context), LAMBDA targetBlocks :
    With(TryPairs(W, newBlock, PairsOf(targetBlocks, connectionStrategies(cm)), <<>>),
         LAMBDA r :
    [ws |-> r.ws, result |-> r.result, log |-> r.log, targets |-> targetBlocks]))

attemptConnection(W, cm, newBlock, clientPos, context) ==
    IF ~cm.enableAutoConnection
    THEN [ws |-> W, result |-> NoResult, log |-> <<>>, targets |-> <<>>]
    ELSE findAndMakeConnection(W, cm, newBlock,
                               buildConnectionContext(W, cm, newBlock, clientPos, context))

(***************************************************************************)
(* BlockPositioner (block-positioner.ts)                                   *)
(***************************************************************************)
OFFSET_STEP == 30

\* lastCreationX and lastCreationY are undefined until the first placement
\* (placed = FALSE) and are always assigned together.
NewBlockPositioner ==
    [placed |-> FALSE, lastCreationX |-> 0, lastCreationY |-> 0, offsetCount |-> 0]

\* positionBlock without the reset of the offset counter.
positionBlock_keepsCount(bp, W, block, clientPos) ==
    LET x_client == IF clientPos.defined THEN clientPos.x
                    ELSE W.view.divLeft + W.view.divWidth \div 2
        y_client == IF clientPos.defined THEN clientPos.y
                    ELSE W.view.divTop + W.view.divHeight \div 2
        x == (x_client - W.view.divLeft) \div W.view.scale + W.view.viewLeft
        y == (y_client - W.view.divTop) \div W.view.scale + W.view.viewTop
        isSamePosition ==
            bp.placed /\ bp.lastCreationX = x_client /\ bp.lastCreationY = y_client
        offsetCount == IF isSamePosition THEN bp.offsetCount + 1 ELSE bp.offsetCount
        offset == (offsetCount * OFFSET_STEP) \div W.view.scale
    IN  [bp |-> [placed |-> TRUE, lastCreationX |-> x_client,
                 lastCreationY |-> y_client, offsetCount |-> offsetCount],
         ws |-> select(moveBy(W, block, x + offset, y + offset), block)]

\* positionBlock: the positioner afterwards, and the workspace with the block
\* moved and selected.
positionBlock(bp, W, block, clientPos) ==
    LET x_client == IF clientPos.defined THEN clientPos.x
                    ELSE W.view.divLeft + W.view.divWidth \div 2
        y_client == IF clientPos.defined THEN clientPos.y
                    ELSE W.view.divTop + W.view.divHeight \div 2
        x == (x_client - W.view.divLeft) \div W.view.scale + W.view.viewLeft
        y == (y_client - W.view.divTop) \div W.view.scale + W.view.viewTop
        isSamePosition ==
            bp.placed /\ bp.lastCreationX = x_client /\ bp.lastCreationY = y_client
        offsetCount == IF isSamePosition THEN bp.offsetCount + 1 ELSE 0
        offset == (offsetCount * OFFSET_STEP) \div W.view.scale
    IN  [bp |-> IF isSamePosition THEN [bp EXCEPT !.offsetCount = offsetCount]
                ELSE [placed |-> TRUE, lastCreationX |-> x_client,
                      lastCreationY |-> y_client, offsetCount |-> 0],
         ws |-> select(moveBy(W, block, x + offset, y + offset), block)]

(***************************************************************************)
(* Host events (Blockly.Events.Abstract) as the tracker reads them:        *)
(* type, workspaceId, and for a block change the changed block's type (as  *)
(* getBlockById finds it, "none" when it finds no block), element, name.   *)
(***************************************************************************)
WorkspaceId == "ws"

EventTypes ==
    {"var_create", "var_delete", "create", "change", "finished_loading",
     "move", "selected", "click", "theme_change", "viewport_change"}

PlainEvents ==
    [type : EventTypes \ {"change"}, workspaceId : {WorkspaceId, "other"},
     block : {"none"}, element : {"none"}, name : {"none"}]

ChangeEvents ==
    [type : {"change"}, workspaceId : {WorkspaceId, "other"},
     block : {"none", "procedures_defnoreturn", "math_number"},
     element : {"field", "comment"}, name : {"NAME", "NUM"}]

Events == PlainEvents \cup ChangeEvents

(***************************************************************************)
(* DefaultWorkspaceStateTracker                                            *)
(***************************************************************************)
\* The handlers setupEventListeners registers, in registration order.  The
\* first parameter of addEventHandler (the event type) is not used by the
\* handler it builds, so every handler runs for every event.
StringHandlers == {"h_var_create", "h_var_delete", "h_var_rename", "h_finished_loading"}
BlockHandlers == {"h_block_create", "h_block_delete"}
Handlers == StringHandlers \cup BlockHandlers \cup {"h_block_change", "h_debounce"}

invalidate_toggle(t) == [t EXCEPT !.needsReload = ~t.needsReload]

invalidate(t) ==
    IF ~t.needsReload THEN [t EXCEPT !.needsReload = TRUE] ELSE t

markReloaded(t) == [t EXCEPT !.needsReload = FALSE]

isProcedureBlock(blockType) ==
    blockType \in {"procedures_defnoreturn", "procedures_defreturn",
                   "procedures_callnoreturn", "procedures_callreturn"}

\* handleBlockEvent reads (event as any).type, the event's own type.
handleBlockEvent(t, event) ==
    IF isProcedureBlock(event.type) THEN invalidate(t) ELSE t

handleBlockChangeEvent(t, event) ==
    IF event.block = "none" THEN t
    ELSE IF isProcedureBlock(event.block) /\ event.element = "field" /\ event.name = "NAME"
         THEN invalidate(t)
         ELSE t

shouldInvalidateForGeneralChange(event) ==
    event.type \notin {"selected", "click", "theme_change", "viewport_change"}

\* addEventHandler whose string handlers run for the event type they were
\* registered with only.
addEventHandler_byType(t, h, event) ==
    IF event.workspaceId # WorkspaceId THEN t
    ELSE IF h \in StringHandlers
    THEN IF h = "h_" \o event.type THEN invalidate(t) ELSE t
    ELSE IF h \in BlockHandlers THEN handleBlockEvent(t, event)
    ELSE handleBlockChangeEvent(t, event)

\* One handler built by addEventHandler, applied to an event.
addEventHandler(t, h, event) ==
    IF event.workspaceId # WorkspaceId THEN t
    ELSE IF h \in StringHandlers THEN invalidate(t)
    ELSE IF h \in BlockHandlers THEN handleBlockEvent(t, event)
    ELSE handleBlockChangeEvent(t, event)

\* The debounced handler of addWorkspaceChangeListener: cancel and replace.
addWorkspaceChangeListener(t, event) ==
    IF event.workspaceId # WorkspaceId THEN t
    ELSE [t EXCEPT !.changeTimeout = event]

\* The timer callback of addWorkspaceChangeListener.
changeTimeoutCallback(t) ==
    LET u == IF shouldInvalidateForGeneralChange(t.changeTimeout)
             THEN invalidate(t) ELSE t
    IN  [u EXCEPT !.changeTimeout = NoTimer]

\* The state of a tracker after its constructor (setupEventListeners).
NewTracker ==
    [needsReload |-> TRUE, eventListeners |-> Handlers, changeTimeout |-> NoTimer]

\* All the handlers tracker i still has registered with the host, applied to
\* one event.  invalidate is idempotent, so the order of the handlers does
\* not show in the result.
RECURSIVE ApplyHandlers(_, _, _)
ApplyHandlers(t, hs, event) ==
    IF hs = {} THEN t
    ELSE LET h == CHOOSE x \in hs : TRUE
             u == IF h = "h_debounce" THEN addWorkspaceChangeListener(t, event)
                  ELSE addEventHandler(t, h, event)
         IN  ApplyHandlers(u, hs \ {h}, event)

HostHandlersOf(i) == {h \in Handlers : <<i, h>> \in changeListeners}

\* dispose that leaves the pending debounce timer alone.
trackerDispose_keepsTimer(t) == [t EXCEPT !.eventListeners = {}]

\* DefaultWorkspaceStateTracker.dispose, on the tracker's own fields.
trackerDispose(t) ==
    [t EXCEPT !.eventListeners = {}, !.changeTimeout = NoTimer]

\* ... and on the host's listener list: every remove-closure is run.
RemoveListenersOf(i, listeners) ==
    {l \in listeners : ~(l[1] = i /\ l[2] \in trackers[i].eventListeners)}

(***************************************************************************)
(* The host's page: WidgetDiv (the floating input lives in it),            *)
(* DropDownDiv, the pointermove listeners on the injection div and the     *)
(* shortcut registry.  While the WidgetDiv shows a floating input, owner   *)
(* is the controller that opened it, renderer its Renderer, and keysBound  *)
(* says whether show() got as far as attaching the keydown and blur        *)
(* listeners.                                                              *)
(***************************************************************************)
SHORTCUT == "floatInput"

NewRenderer(initial) == [query |-> initial, suggestions |-> <<>>, highlighted |-> -1]

IdleDom ==
    [widgetVisible |-> FALSE, dropDownVisible |-> FALSE,
     pointerListeners |-> {}, shortcuts |-> {},
     owner |-> 0, renderer |-> NewRenderer(<<>>), keysBound |-> FALSE]

\* Blockly.WidgetDiv.hide(): the div is emptied, the Renderer goes with it.
WidgetDiv_hide(D) ==
    [D EXCEPT !.widgetVisible = FALSE, !.owner = 0,
              !.renderer = NewRenderer(<<>>), !.keysBound = FALSE]

EmptyWorkspace ==
    [blocks |-> <<>>, links |-> {}, variables |-> <<>>, selected |-> 0,
     registered |-> BlockTypes, typeblock |-> [t \in BlockTypes |-> {}],
     strict |-> FALSE,
     view |-> [scale |-> 1, viewLeft |-> 0, viewTop |-> 0,
               divLeft |-> 0, divTop |-> 0, divWidth |-> 400, divHeight |-> 400]]

(***************************************************************************)
(* Renderer (renderer.ts).  highlighted is the code's 0-based index, -1    *)
(* for none.  The list holds one item per suggestion; touching the class   *)
(* list of an item past its end is a TypeError (threw).                    *)
(***************************************************************************)
updateHighlight(r, idx) ==
    IF r.highlighted >= 0 /\ r.highlighted >= Len(r.suggestions)
    THEN [renderer |-> r, threw |-> TRUE]
    ELSE [renderer |-> [r EXCEPT !.highlighted = idx],
          threw |-> idx >= 0 /\ idx >= Len(r.suggestions)]

setSuggestions(r, suggestions) ==
    LET r1 == [r EXCEPT !.suggestions = suggestions]
    IN  IF Len(suggestions) > 0 THEN updateHighlight(r1, 0)
        ELSE [renderer |-> [r1 EXCEPT !.highlighted = -1], threw |-> FALSE]

\* commit(): whether Enter or Tab has a suggestion to hand to choose.
canCommit(r) == r.highlighted >= 0 /\ r.highlighted < Len(r.suggestions)

\* substringMatcher (matcher.ts)
substringMatcher(options, query) ==
    LET q == toLowerCase(trim(query))
    IN  IF q = <<>> THEN options
        ELSE FilterSeq(options,
                       {o \in Range(options) : includes(toLowerCase(o.displayText), q)})

(***************************************************************************)
(* Option generators as the controllers hold them.  kind is the class the  *)
(* instanceof tests see: "smart" (SmartOptionGenerator), "base"            *)
(* (WorkspaceOptionGenerator) or "custom" (an OptionGenerator the          *)
(* installer wrote, which is neither).                                     *)
(***************************************************************************)
NewWorkspaceOptionGenerator ==
    [NewSmartOptionGenerator([k \in {} |-> 0]) EXCEPT !.kind = "base"]

\* What the installer's own generator returns from generateOptions().
CustomOptions == <<createOption(Str["print"]), createOption(Str["repeat"])>>

NewCustomGenerator ==
    [NewSmartOptionGenerator([k \in {} |-> 0]) EXCEPT !.kind = "custom"]

\* setScopeAnalyzer
setScopeAnalyzer(gen) == [gen EXCEPT !.hasScopeAnalyzer = TRUE]

\* generator.generateOptions()
generatorOptions(gen, W) ==
    IF gen.kind = "custom" THEN CustomOptions ELSE generateOptions(W, gen.hasScopeAnalyzer)

\* cachedOptions: undefined, or a list
Undefined == [defined |-> FALSE, list |-> <<>>]
Defined(list) == [defined |-> TRUE, list |-> list]

(***************************************************************************)
(* FloatingInputController (controller.ts) and                             *)
(* DynamicFloatingInputController (dynamic-controller.ts).  A controller   *)
(* holds generators and trackers by their index in the model's lists, 0    *)
(* standing for undefined.                                                 *)
(***************************************************************************)
\* The constructor, given its options with every key spelled out
\* (enableSmartConnection and enablePatternRecognition: anything but false
\* is TRUE).
NewFloatingInputController(opts) ==
    [lastX |-> 0, lastY |-> 0,
     options |-> opts.options,
     optionGenerator |-> opts.optionGenerator,
     blockPositioner |-> NewBlockPositioner,
     hasPatternManager |-> opts.enablePatternRecognition,
     patternManager |-> registerBuiltinPatterns(NewInputPatternManager(opts.patternConfig),
                                                getBuiltinPatterns),
     hasConnectionManager |-> opts.enableSmartConnection,
     connectionManager |-> ConnectionManagerConfig(opts.connectionConfig),
     staticOptions |-> <<>>,
     dynamicOptionGenerator |-> 0,
     stateTracker |-> 0,
     cachedOptions |-> Undefined]

NewDynamicFloatingInputController(opts) ==
    [NewFloatingInputController(opts) EXCEPT
        !.staticOptions = opts.options,
        !.dynamicOptionGenerator = opts.optionGenerator,
        !.stateTracker = opts.stateTracker]

\* pointerMoveListener
pointerMoveListener(ctl, x, y) == [ctl EXCEPT !.lastX = x, !.lastY = y]

\* lazyLoadOptions.  fault: generateOptions() throws in this call.  Gives
\* the controller afterwards, whether markReloaded() was called on the
\* tracker, and whether the generator threw.
lazyLoadOptions_keepsLast(ctl, gen, W, fault) ==
    IF ctl.dynamicOptionGenerator = 0 \/ ctl.stateTracker = 0
    THEN [controller |-> ctl, reloaded |-> FALSE, threw |-> FALSE]
    ELSE IF fault
    THEN [controller |-> ctl, reloaded |-> FALSE, threw |-> TRUE]
    ELSE [controller |-> [ctl EXCEPT !.cachedOptions = Defined(generatorOptions(gen, W))],
          reloaded |-> TRUE, threw |-> FALSE]

lazyLoadOptions(ctl, gen, W, fault) ==
    IF ctl.dynamicOptionGenerator = 0 \/ ctl.stateTracker = 0
    THEN [controller |-> ctl, reloaded |-> FALSE, threw |-> FALSE]
    ELSE IF fault
    THEN [controller |-> [ctl EXCEPT !.cachedOptions = Defined(ctl.staticOptions)],
          reloaded |-> FALSE, threw |-> TRUE]
    ELSE [controller |-> [ctl EXCEPT !.cachedOptions = Defined(generatorOptions(gen, W))],
          reloaded |-> TRUE, threw |-> FALSE]

\* getCurrentOptions, given the tracker's needsReload.  An empty cached
\* list is still a list (`[] || x` is []).
getCurrentOptions(ctl, gen, needsReload, W, fault) ==
    IF ctl.dynamicOptionGenerator = 0 \/ ctl.stateTracker = 0
    THEN [controller |-> ctl, options |-> ctl.staticOptions,
          reloaded |-> FALSE, threw |-> FALSE]
    ELSE With(IF needsReload \/ ~ctl.cachedOptions.defined
              THEN lazyLoadOptions(ctl, gen, W, fault)
              ELSE [controller |-> ctl, reloaded |-> FALSE, threw |-> FALSE],
              LAMBDA l :
         [controller |-> l.controller,
          options |-> IF l.controller.cachedOptions.defined
                      THEN l.controller.cachedOptions.list
                      ELSE l.controller.staticOptions,
          reloaded |-> l.reloaded, threw |-> l.threw])

\* refresh, the closure show() builds and runs once itself and then on
\* every input event.  fault: generateOptionsForInput throws in this call.
\* Gives the generator and the Renderer afterwards, whether an exception
\* left refresh, and whether the generator was asked and threw.
refresh(ctl, gen, W, r, fault) ==
    IF ctl.optionGenerator # 0 /\ gen.kind = "smart"
    THEN IF fault
         THEN [gen |-> gen, renderer |-> r, threw |-> TRUE, generatorThrew |-> TRUE,
               asked |-> TRUE, returned |-> <<>>]
         ELSE With(generateOptionsForInput(gen, W, r.query), LAMBDA g :
              With(setSuggestions(r, substringMatcher(g.options, r.query)), LAMBDA s :
              [gen |-> g.gen, renderer |-> s.renderer, threw |-> s.threw,
               generatorThrew |-> FALSE, asked |-> TRUE, returned |-> g.options]))
    ELSE With(setSuggestions(r, substringMatcher(ctl.options, r.query)), LAMBDA s :
         [gen |-> gen, renderer |-> s.renderer, threw |-> s.threw,
          generatorThrew |-> FALSE, asked |-> FALSE, returned |-> <<>>])

\* DynamicFloatingInputController.dispose, on the controller's fields; the
\* pointermove listener is removed by super.dispose().
controllerDispose(ctl) ==
    [ctl EXCEPT !.cachedOptions = Undefined, !.dynamicOptionGenerator = 0,
                !.stateTracker = 0]

\* choose(value) up to, and without, its closing WidgetDiv.hide(): the
\* controller and the workspace afterwards, the block created (0 for
\* none), and what the connection manager tried.
choose(ctl, W, value) ==
    With(IF ctl.hasPatternManager
         THEN getBlockInstructions(ctl.patternManager, value)
         ELSE [pm |-> ctl.patternManager, instruction |-> NoInstruction],
         LAMBDA g :
    With(IF g.instruction # NoInstruction
         THEN createBlockFromInstruction(W, g.instruction)
         ELSE NoBlock(W),
         LAMBDA r1 :
    With(IF r1.block = 0 THEN createBlock(r1.ws, value) ELSE r1,
         LAMBDA r2 :
    IF r2.block = 0
    THEN [controller |-> [ctl EXCEPT !.patternManager = g.pm], ws |-> r2.ws,
          block |-> 0, result |-> NoResult, log |-> <<>>, targets |-> <<>>]
    ELSE With(positionBlock(ctl.blockPositioner, r2.ws, r2.block,
                            Position(ctl.lastX, ctl.lastY)),
              LAMBDA p :
         With(IF ctl.hasConnectionManager
              THEN attemptConnection(p.ws, ctl.connectionManager, r2.block,
                                     Position(ctl.lastX, ctl.lastY), NoContext)
              ELSE [ws |-> p.ws, result |-> NoResult, log |-> <<>>, targets |-> <<>>],
              LAMBDA a :
         [controller |-> [ctl EXCEPT !.patternManager = g.pm,
                                     !.blockPositioner = p.bp],
          ws |-> a.ws, block |-> r2.block, result |-> a.result,
          log |-> a.log, targets |-> a.targets])))))

(***************************************************************************)
(* TypeBlocking (typeblocking.ts).  The operations work on the objects the *)
(* instance reaches: S holds the instance (tb), the controllers,           *)
(* generators and trackers created so far, the host's change listeners,    *)
(* the page and the workspace; S.threw says the operation ended in an      *)
(* exception.  tb.workspace is FALSE once dispose() has nulled the field.  *)
(***************************************************************************)
NewTypeBlocking ==
    [workspace |-> TRUE, controller |-> 0, stateTracker |-> 0, optionGenerator |-> 0]

NoTypeBlocking ==
    [workspace |-> FALSE, controller |-> 0, stateTracker |-> 0, optionGenerator |-> 0]

NoConfig == [k \in {} |-> 0]

\* InstallOptions as the model passes them: optionGenerator is "none" or
\* "custom"; options is the list given for static mode.
InstallOptions(enableDynamicOptions, enablePatternRecognition, enableSmartConnection,
               optionGenerator, options) ==
    [enableDynamicOptions |-> enableDynamicOptions,
     enablePatternRecognition |-> enablePatternRecognition,
     enableSmartConnection |-> enableSmartConnection,
     optionGenerator |-> optionGenerator,
     options |-> options]

\* installFloatingInput: a new controller replaces this.controller, and
\* the shortcut is registered again (allowOverrides).  With the workspace
\* nulled the controller's constructor throws at ws.getInjectionDiv().
installFloatingInput(S, o, options) ==
    LET c == Len(S.controllers) + 1
        ctl == NewDynamicFloatingInputController(
                   [options |-> options,
                    optionGenerator |-> S.tb.optionGenerator,
                    stateTracker |-> S.tb.stateTracker,
                    enableSmartConnection |-> o.enableSmartConnection,
                    enablePatternRecognition |-> o.enablePatternRecognition,
                    patternConfig |-> NoConfig,
                    connectionConfig |-> NoConfig])
    IN  IF ~S.tb.workspace THEN [S EXCEPT !.threw = TRUE]
        ELSE [S EXCEPT !.controllers = Append(@, ctl),
                       !.dom.pointerListeners = @ \cup {c},
                       !.dom.shortcuts = @ \cup {SHORTCUT},
                       !.tb.controller = c]

\* setupDynamicOptions.  With the workspace nulled the tracker's constructor
\* throws at workspace.addChangeListener, after the generator was stored.
setupDynamicOptions(S, o) ==
    LET made == IF o.optionGenerator = "custom" THEN NewCustomGenerator
                ELSE IF o.enablePatternRecognition THEN NewSmartOptionGenerator(NoConfig)
                ELSE NewWorkspaceOptionGenerator
        gen == IF made.kind \in {"smart", "base"} THEN setScopeAnalyzer(made) ELSE made
        g == Len(S.generators) + 1
        t == Len(S.trackers) + 1
        S1 == [S EXCEPT !.generators = Append(@, gen), !.tb.optionGenerator = g]
        S2 == [S1 EXCEPT !.trackers = Append(@, NewTracker),
                         !.changeListeners = @ \cup {<<t, h>> : h \in Handlers},
                         !.tb.stateTracker = t]
    IN  IF ~S.tb.workspace THEN [S1 EXCEPT !.threw = TRUE]
        ELSE installFloatingInput(S2, o, <<>>)

\* blockType.split('_').length > 1
HasUnderscore(blockType) == "_" \in Range(Str[blockType])

\* Blockly.Msg.CONTROLS_IF_MSG_IF
CONTROLS_IF_MSG_IF == <<"i", "f">>

\* generateLegacyOptions: controls_if is given the alias `if`, every other
\* registered type with an underscore in its name and no alias is given its
\* own name for alias, and the aliases of the types with an underscore are
\* the options.  Without controls_if in the registry the first assignment
\* throws.
generateLegacyOptions(W) ==
    IF "controls_if" \notin W.registered
    THEN [ws |-> W, options |-> <<>>, threw |-> TRUE]
    ELSE LET aliasOf(t) ==
                 IF t = "controls_if" THEN {CONTROLS_IF_MSG_IF}
                 ELSE IF /\ t \in W.registered
                         /\ HasUnderscore(t)
                         /\ W.typeblock[t] \subseteq {<<>>}
                 THEN {Str[t]}
                 ELSE W.typeblock[t]
             W1 == [W EXCEPT !.typeblock = [t \in DOMAIN @ |-> aliasOf(t)]]
         IN  [ws |-> W1,
              options |-> ConcatAll([i \in DOMAIN BlockOrder |->
                             IF BlockOrder[i] \in W.registered /\ HasUnderscore(BlockOrder[i])
                             THEN <<CHOOSE alias \in W1.typeblock[BlockOrder[i]] : TRUE>>
                             ELSE <<>>]),
              threw |-> FALSE]

\* setupStaticOptions: the installer's option list when it gives one
\* (options.options || ...), the legacy list otherwise.
setupStaticOptions(S, o) ==
    IF "options" \in DOMAIN o THEN installFloatingInput(S, o, o.options)
    ELSE With(generateLegacyOptions(S.ws), LAMBDA r :
         IF r.threw THEN [S EXCEPT !.threw = TRUE]
         ELSE installFloatingInput([S EXCEPT !.ws = r.ws], o, r.options))

\* init(options)
typeBlockingInit(S, o) ==
    IF o.enableDynamicOptions THEN setupDynamicOptions(S, o) ELSE setupStaticOptions(S, o)

\* dispose()
typeBlockingDispose(S) ==
    IF ~S.tb.workspace THEN S
    ELSE LET t == S.tb.stateTracker
             c == S.tb.controller
             S1 == IF t # 0
                   THEN [S EXCEPT !.changeListeners =
                                      {l \in @ : ~(l[1] = t
                                                   /\ l[2] \in S.trackers[t].eventListeners)},
                                  !.trackers[t] = trackerDispose(@),
                                  !.tb.stateTracker = 0]
                   ELSE S
             S2 == IF c # 0
                   THEN [S1 EXCEPT !.controllers[c] = controllerDispose(@),
                                   !.dom.pointerListeners = @ \ {c},
                                   !.tb.controller = 0]
                   ELSE S1
         IN  [S2 EXCEPT !.dom.shortcuts = @ \ {SHORTCUT},
                        !.dom.dropDownVisible = FALSE,
                        !.tb.optionGenerator = 0,
                        !.tb.workspace = FALSE]

\* A workspace with a TypeBlocking instance constructed on it and nothing
\* installed yet.
Constructed(W) ==
    [tb |-> NewTypeBlocking, controllers |-> <<>>, generators |-> <<>>,
     trackers |-> <<>>, changeListeners |-> {}, dom |-> IdleDom, ws |-> W,
     threw |-> FALSE]

(***************************************************************************)
(* Tracker operations as steps                                             *)
(***************************************************************************)
TrkOp(op, i, was) == [op |-> op, tracker |-> i, was |-> was]

CallInvalidate(i) ==
    /\ trackers' = [trackers EXCEPT ![i] = invalidate(@)]
    /\ trkLastOp' = TrkOp("invalidate", i, trackers[i].needsReload)
    /\ UNCHANGED changeListeners

CallMarkReloaded(i) ==
    /\ trackers' = [trackers EXCEPT ![i] = markReloaded(@)]
    /\ trkLastOp' = TrkOp("markReloaded", i, trackers[i].needsReload)
    /\ UNCHANGED changeListeners

\* The host fires one change event: every registered listener runs.
DeliveredTrackers(event) ==
    [i \in DOMAIN trackers |-> ApplyHandlers(trackers[i], HostHandlersOf(i), event)]

DeliverEvent(event) ==
    /\ trackers' = DeliveredTrackers(event)
    /\ trkLastOp' = TrkOp("event", 0, FALSE)
    /\ UNCHANGED changeListeners

\* The 100 ms debounce timer of tracker i expires.
TimerFire(i) ==
    /\ trackers[i].changeTimeout # NoTimer
    /\ trackers' = [trackers EXCEPT ![i] = changeTimeoutCallback(@)]
    /\ trkLastOp' = TrkOp("timer", i, trackers[i].needsReload)
    /\ UNCHANGED changeListeners

CallTrackerDispose(i) ==
    /\ trackers' = [trackers EXCEPT ![i] = trackerDispose(@)]
    /\ changeListeners' = RemoveListenersOf(i, changeListeners)
    /\ trkLastOp' = TrkOp("dispose", i, trackers[i].needsReload)

(***************************************************************************)
(* The pipeline's operations as steps.  lastCall is the history of the     *)
(* call made last: its name, its arguments and what came of it; inits      *)
(* counts the init() calls made and good is the list the last successful   *)
(* generateOptions() of lazyLoadOptions gave.                              *)
(***************************************************************************)
NoCall == [op |-> "none", count |-> 0, inits |-> 0, good |-> Undefined]

Called(op, fields) ==
    fields @@ [op |-> op, count |-> lastCall.count, inits |-> lastCall.inits,
               good |-> lastCall.good]

Cur ==
    [tb |-> tb, controllers |-> controllers, generators |-> generators,
     trackers |-> trackers, changeListeners |-> changeListeners, dom |-> dom,
     ws |-> ws, threw |-> FALSE]

Become(S) ==
    /\ tb' = S.tb
    /\ controllers' = S.controllers
    /\ generators' = S.generators
    /\ trackers' = S.trackers
    /\ changeListeners' = S.changeListeners
    /\ dom' = S.dom
    /\ ws' = S.ws
    /\ UNCHANGED standaloneVars

\* The number of init() calls in a run.
MaxInits == 2

\* The number of blocks a workspace holds before choose() is no longer
\* called on it.
MaxBlocks == 2

CallInit(o) ==
    /\ lastCall.inits < MaxInits
    /\ \E S \in {typeBlockingInit(Cur, o)} :
           /\ Become(S)
           /\ lastCall' = [Called("init", [threw |-> S.threw])
                              EXCEPT !.inits = lastCall.inits + 1]
    /\ UNCHANGED trkLastOp

CallDispose ==
    /\ Become(typeBlockingDispose(Cur))
    /\ lastCall' = Called("dispose", [wasVisible |-> dom.widgetVisible,
                                      wasLive |-> tb.workspace])
    /\ UNCHANGED trkLastOp

GenOf(g) == IF g = 0 THEN NewCustomGenerator ELSE generators[g]

\* DynamicFloatingInputController.show(initial) on controller c, with
\* FloatingInputController.show inside it.  When refresh() throws, show()
\* ends there: the WidgetDiv is shown and the input listener attached, the
\* keydown and blur listeners are not.
CallShow(c, initial, faultLoad, faultRefresh) ==
    \E t \in {controllers[c].stateTracker} :
    \E cur \in {getCurrentOptions(controllers[c],
                                  GenOf(controllers[c].dynamicOptionGenerator),
                                  t # 0 /\ trackers[t].needsReload, ws, faultLoad)} :
    \E ctl1 \in {[cur.controller EXCEPT !.options = cur.options]} :
    \E g \in {ctl1.optionGenerator} :
    \E rf \in {refresh(ctl1, GenOf(g), ws, NewRenderer(initial), faultRefresh)} :
        /\ controllers' = [controllers EXCEPT ![c] = ctl1]
        /\ generators' = IF g # 0 THEN [generators EXCEPT ![g] = rf.gen] ELSE generators
        /\ trackers' = IF cur.reloaded THEN [trackers EXCEPT ![t] = markReloaded(@)]
                       ELSE trackers
        /\ dom' = [dom EXCEPT !.widgetVisible = TRUE, !.owner = c,
                              !.renderer = rf.renderer, !.keysBound = ~rf.threw]
        /\ lastCall' = [Called("show",
                               [controller |-> c, query |-> initial,
                                loadThrew |-> cur.threw, hadGood |-> lastCall.good,
                                asked |-> rf.asked, returned |-> rf.returned,
                                generatorThrew |-> cur.threw \/ rf.generatorThrew,
                                escaped |-> rf.threw])
                           EXCEPT !.good = IF cur.reloaded
                                           THEN Defined(cur.options) ELSE lastCall.good]
        /\ UNCHANGED <<standaloneVars, tb, changeListeners, ws, trkLastOp>>

\* A key the shortcut is mapped to is pressed on the workspace.
KeyShortcut(initial, faultLoad, faultRefresh) ==
    /\ SHORTCUT \in dom.shortcuts
    /\ ~dom.widgetVisible
    /\ tb.controller # 0
    /\ CallShow(tb.controller, initial, faultLoad, faultRefresh)

\* The user edits the text of the floating input: the input event runs
\* refresh.
TypeQuery(q, fault) ==
    /\ dom.widgetVisible /\ dom.owner # 0
    /\ q # dom.renderer.query
    /\ \E c \in {dom.owner} :
       \E g \in {controllers[c].optionGenerator} :
       \E rf \in {refresh(controllers[c], GenOf(g), ws,
                          [dom.renderer EXCEPT !.query = q], fault)} :
           /\ generators' = IF g # 0 THEN [generators EXCEPT ![g] = rf.gen] ELSE generators
           /\ dom' = [dom EXCEPT !.renderer = rf.renderer]
           /\ lastCall' = Called("input",
                                 [controller |-> c, query |-> q,
                                  asked |-> rf.asked, returned |-> rf.returned,
                                  generatorThrew |-> rf.generatorThrew,
                                  escaped |-> rf.threw])
    /\ UNCHANGED <<standaloneVars, tb, controllers, trackerVars, ws>>

\* choose(value) on controller c, closing WidgetDiv.hide() included.
CallChoose(c, value) ==
    /\ Len(ws.blocks) < MaxBlocks
    /\ \E r \in {choose(controllers[c], ws, value)} :
           /\ controllers' = [controllers EXCEPT ![c] = r.controller]
           /\ ws' = r.ws
           /\ dom' = WidgetDiv_hide(dom)
           /\ lastCall' = Called("choose",
                                 [controller |-> c, value |-> value, block |-> r.block,
                                  selectedAtConfirm |-> ws.selected,
                                  blocksBefore |-> Len(ws.blocks),
                                  clientPos |-> Position(controllers[c].lastX,
                                                         controllers[c].lastY),
                                  targets |-> r.targets, log |-> r.log,
                                  result |-> r.result])
    /\ UNCHANGED <<standaloneVars, tb, generators, trackerVars>>

\* The text choose() reads from the suggestion the Renderer hands it: the
\* option's blockType or its displayText.
ChosenTexts(option) == {option.blockType, option.displayText}

\* Enter or Tab in the floating input: commit() chooses the highlighted
\* suggestion.
PressEnter ==
    /\ dom.widgetVisible /\ dom.keysBound /\ canCommit(dom.renderer)
    /\ \E value \in ChosenTexts(dom.renderer.suggestions[dom.renderer.highlighted + 1]) :
          CallChoose(dom.owner, value)

\* mousedown on the idx-th item of the list (a listener of the Renderer's
\* constructor).
MouseDown(idx) ==
    /\ dom.widgetVisible /\ dom.owner # 0
    /\ idx \in DOMAIN dom.renderer.suggestions
    /\ \E value \in ChosenTexts(dom.renderer.suggestions[idx]) :
          CallChoose(dom.owner, value)

\* Escape in the floating input, or the input losing the focus.
Dismiss(how) ==
    /\ dom.widgetVisible /\ dom.keysBound
    /\ dom' = WidgetDiv_hide(dom)
    /\ lastCall' = Called(how, [controller |-> dom.owner])
    /\ UNCHANGED <<standaloneVars, tb, controllers, generators, trackerVars, ws>>

\* The pointer moves over the injection div: every listener still attached
\* runs.
PointerMove(x, y) ==
    /\ dom.pointerListeners # {}
    /\ controllers' = [c \in DOMAIN controllers |->
                          IF c \in dom.pointerListeners
                          THEN pointerMoveListener(controllers[c], x, y)
                          ELSE controllers[c]]
    /\ lastCall' = Called("pointermove", [x |-> x, y |-> y])
    /\ UNCHANGED <<standaloneVars, tb, generators, trackerVars, ws, dom>>

(***************************************************************************)
(* What the user and the host do besides                                   *)
(***************************************************************************)
\* The user selects a block, or nothing (b = 0).
HostSelect(b) ==
    /\ b # ws.selected
    /\ ws' = select(ws, b)
    /\ lastCall' = Called("select", [block |-> b])
    /\ UNCHANGED <<standaloneVars, tb, controllers, generators, trackerVars, dom>>

\* The user declares a variable.
HostCreateVariable(name) ==
    /\ getVariable(ws, name) = 0
    /\ ws' = createVariable(ws, name)
    /\ lastCall' = Called("createVariable", [name |-> name])
    /\ UNCHANGED <<standaloneVars, tb, controllers, generators, trackerVars, dom>>

\* A field of some block opens its dropdown.
HostShowDropDown ==
    /\ ~dom.dropDownVisible
    /\ dom' = [dom EXCEPT !.dropDownVisible = TRUE]
    /\ lastCall' = Called("showDropDown", [controller |-> 0])
    /\ UNCHANGED <<standaloneVars, tb, controllers, generators, trackerVars, ws>>

\* A click on the workspace: the host hides its chaff, the WidgetDiv and
\* the DropDownDiv with it.
HostHideChaff ==
    /\ dom.widgetVisible \/ dom.dropDownVisible
    /\ dom' = [WidgetDiv_hide(dom) EXCEPT !.dropDownVisible = FALSE]
    /\ lastCall' = Called("hideChaff", [controller |-> 0])
    /\ UNCHANGED <<standaloneVars, tb, controllers, generators, trackerVars, ws>>

\* The host fires a change event; the debounce timer of a tracker expires.
HostEvent(event) ==
    /\ DeliverEvent(event)
    /\ lastCall' = Called("event", [event |-> event])
    /\ UNCHANGED <<hostVars, pluginVars, standaloneVars>>

HostTimer(i) ==
    /\ TimerFire(i)
    /\ lastCall' = Called("timer", [tracker |-> i])
    /\ UNCHANGED <<hostVars, pluginVars, standaloneVars>>

\* A tracker on its own: no TypeBlocking instance, no controller.
InitTrackerOne ==
    /\ trackers = <<NewTracker>>
    /\ changeListeners = {<<1, h>> : h \in Handlers}
    /\ trkLastOp = TrkOp("new", 1, FALSE)
    /\ ws = EmptyWorkspace
    /\ dom = IdleDom
    /\ tb = NoTypeBlocking
    /\ controllers = <<>>
    /\ generators = <<>>
    /\ patternManager = NoObject
    /\ positioner = NoObject
    /\ lastCall = NoCall

TInvalidate ==
    /\ \E i \in DOMAIN trackers : CallInvalidate(i)
    /\ UNCHANGED <<hostVars, pluginVars, standaloneVars, lastCall>>
TMarkReloaded ==
    /\ \E i \in DOMAIN trackers : CallMarkReloaded(i)
    /\ UNCHANGED <<hostVars, pluginVars, standaloneVars, lastCall>>
TDeliverEvent ==
    /\ \E e \in Events : DeliverEvent(e)
    /\ UNCHANGED <<hostVars, pluginVars, standaloneVars, lastCall>>
TTimerFire ==
    /\ \E i \in DOMAIN trackers : TimerFire(i)
    /\ UNCHANGED <<hostVars, pluginVars, standaloneVars, lastCall>>
TDispose ==
    /\ \E i \in DOMAIN trackers : CallTrackerDispose(i)
    /\ UNCHANGED <<hostVars, pluginVars, standaloneVars, lastCall>>

NextTracker ==
    \/ TInvalidate
    \/ TMarkReloaded
    \/ TDeliverEvent
    \/ TTimerFire
    \/ TDispose

SpecTracker == InitTrackerOne /\ [][NextTracker]_vars

(***************************************************************************)
(* C2: once invalidate has been called, needsReload stays true until the   *)
(* next markReloaded(), however many further invalidate calls, delivered   *)
(* events, timer expiries or dispose calls come in between, and one        *)
(* markReloaded() then makes it false.                                     *)
(***************************************************************************)
C2_DirtyUntilReloaded ==
    [][\A i \in DOMAIN trackers :
        /\ (trkLastOp'.op = "invalidate" /\ trkLastOp'.tracker = i
              => trackers'[i].needsReload)
        /\ (trackers[i].needsReload
              /\ ~(trkLastOp'.op = "markReloaded" /\ trkLastOp'.tracker = i)
              => trackers'[i].needsReload)
        /\ (trkLastOp'.op = "markReloaded" /\ trkLastOp'.tracker = i
              => ~trackers'[i].needsReload)]_vars

\* A second invalidate in a row has just run on a tracker that was dirty.
C2_Witness ==
    /\ trkLastOp.op = "invalidate"
    /\ trkLastOp.was
    /\ trackers[trkLastOp.tracker].needsReload

(***************************************************************************)
(* The block factory on its own: createBlockFromInstruction and            *)
(* createBlock called on a workspace, with any of the literal block types  *)
(* possibly missing from the host's registry.                              *)
(***************************************************************************)
\* The number of factory calls in a run.
MaxFactoryCalls == 2

DefaultPatternManager ==
    registerBuiltinPatterns(NewInputPatternManager([k \in {} |-> 0]), getBuiltinPatterns)

\* The instructions the built-in patterns produce for a few inputs, and
\* three built by a caller: a tree of depth three, a child whose output type
\* its input refuses, and a block type nobody registered.
ParsedInstructions ==
    {getBlockInstructions(DefaultPatternManager, Str[t]).instruction :
        t \in {"42", "\"hi\"", "true", "2 + 3", "set x to 5", "set y to \"hi\"",
               "set x to y"}}

PrintSum ==
    Instruction("text_print", <<>>, NoFields,
                <<Child("TEXT", getBlockInstructions(DefaultPatternManager,
                                                     Str["2 + 3"]).instruction)>>)

SumOfText ==
    Instruction("math_arithmetic", <<"OP">>, [f \in {"OP"} |-> Str["ADD"]],
                <<Child("A", Literal("text", "TEXT", Str["x"])),
                  Child("B", Literal("math_number", "NUM", Str["4"]))>>)

FactoryInstructions ==
    ParsedInstructions
        \cup {PrintSum, SumOfText, Literal("no_such_block", "NUM", Str["4"])}

FactoryValues ==
    {Str[t] : t \in {"if", "text_print", "get x", "get y", "set x to", "nosuch", "42"}}

LiteralTypes == {"math_number", "text", "logic_boolean"}

FactoryWorkspaces ==
    {[EmptyWorkspace EXCEPT !.registered = BlockTypes \ missing,
                            !.strict = strict,
                            !.variables = variables,
                            !.typeblock = [t \in BlockTypes |->
                                IF t = "controls_if" THEN {Str["if"]} ELSE {}]] :
        missing \in SUBSET LiteralTypes, strict \in BOOLEAN,
        variables \in {<<>>, <<Str["x"]>>}}

InitFactory ==
    /\ ws \in FactoryWorkspaces
    /\ trackers = <<>>
    /\ changeListeners = {}
    /\ trkLastOp = TrkOp("none", 0, FALSE)
    /\ dom = IdleDom
    /\ tb = NoTypeBlocking
    /\ controllers = <<>>
    /\ generators = <<>>
    /\ patternManager = NoObject
    /\ positioner = NoObject
    /\ lastCall = NoCall

CallCreateBlockFromInstruction(instruction) ==
    /\ lastCall.count < MaxFactoryCalls
    /\ \E r \in {createBlockFromInstruction(ws, instruction)} :
           /\ ws' = r.ws
           /\ lastCall' = [op |-> "createBlockFromInstruction", count |-> lastCall.count + 1,
                           instruction |-> instruction, block |-> r.block]
    /\ UNCHANGED <<trackerVars, dom, pluginVars, standaloneVars>>

CallCreateBlock(value) ==
    /\ lastCall.count < MaxFactoryCalls
    /\ \E r \in {createBlock(ws, value)} :
           /\ ws' = r.ws
           /\ lastCall' = [op |-> "createBlock", count |-> lastCall.count + 1,
                           value |-> value, block |-> r.block]
    /\ UNCHANGED <<trackerVars, dom, pluginVars, standaloneVars>>

FCreateFromInstruction == \E i \in FactoryInstructions : CallCreateBlockFromInstruction(i)
FCreateBlock == \E v \in FactoryValues : CallCreateBlock(v)

NextFactory ==
    \/ FCreateFromInstruction
    \/ FCreateBlock

SpecFactory == InitFactory /\ [][NextFactory]_vars

\* Some node of the instruction names a block type the registry lacks, so
\* that instantiating it throws.
RECURSIVE SomeNodeThrows(_, _)
SomeNodeThrows(W, instruction) ==
    \/ instruction.blockType \notin W.registered
    \/ \E k \in DOMAIN instruction.children :
          SomeNodeThrows(W, instruction.children[k].instruction)

\* Block b carries every child of the instruction, each in its input and
\* each carrying its own children.
RECURSIVE ChildrenAttached(_, _, _)
ChildrenAttached(W, b, instruction) ==
    \A k \in DOMAIN instruction.children :
        LET child == instruction.children[k]
            socket == <<b, child.input>>
        IN  /\ isConnected(W, socket)
            /\ W.blocks[targetConnection(W, socket)[1]].type = child.instruction.blockType
            /\ ChildrenAttached(W, targetConnection(W, socket)[1], child.instruction)

(***************************************************************************)
(* C5: when createBlockFromInstruction has returned, if instantiating any  *)
(* node of the tree threw, nothing was returned; and a root block that was *)
(* returned carries every child of the instruction.                        *)
(***************************************************************************)
C5_AllOrNothing ==
    lastCall.op = "createBlockFromInstruction" =>
        /\ (SomeNodeThrows(ws, lastCall.instruction) => lastCall.block = 0)
        /\ (lastCall.block # 0 => ChildrenAttached(ws, lastCall.block, lastCall.instruction))

(***************************************************************************)
(* The choose flow: a TypeBlocking installed in static mode with a list of *)
(* options, on a workspace that holds no block or one statement block,     *)
(* with the host's connect() throwing or not and the number block          *)
(* registered or not.  The user opens the floating input, types, moves     *)
(* the pointer, selects blocks, and confirms suggestions.                  *)
(***************************************************************************)
ChooseOptions ==
    <<Option(Str["text_print"], Str["text print"]),
      Option(Str["42"], Str["42"]),
      Option(Str["get y"], Str["get y"])>>

ExistingStatement == [NewBlockRecord("text_print") EXCEPT !.x = 100, !.y = 100]

ChooseWorkspace(blocks, strict, missing) ==
    [EmptyWorkspace EXCEPT !.blocks = blocks,
                           !.strict = strict,
                           !.registered = BlockTypes \ missing,
                           !.variables = <<Str["x"]>>]

\* The workspaces and the installer's options the runs start from: smart
\* connection on every workspace, and once switched off.
ChooseSetups ==
    {<<ChooseWorkspace(blocks, strict, {}), InstallOptions(FALSE, TRUE, TRUE, "none", ChooseOptions)>> :
        blocks \in {<<>>, <<ExistingStatement>>}, strict \in BOOLEAN}
    \cup {<<ChooseWorkspace(<<>>, FALSE, {"math_number"}),
            InstallOptions(FALSE, TRUE, TRUE, "none", ChooseOptions)>>,
          <<ChooseWorkspace(<<ExistingStatement>>, FALSE, {}),
            InstallOptions(FALSE, TRUE, FALSE, "none", ChooseOptions)>>}

SessionInitials == {<<>>, Str["g"]}
SessionQueries == {<<>>, Str["4"]}
PointerPositions == {<<1000, 1000>>}

InitChoose ==
    \E setup \in ChooseSetups :
        \E S \in {typeBlockingInit(Constructed(setup[1]), setup[2])} :
            /\ tb = S.tb
            /\ controllers = S.controllers
            /\ generators = S.generators
            /\ patternManager = NoObject
            /\ positioner = NoObject
            /\ trackers = S.trackers
            /\ changeListeners = S.changeListeners
            /\ dom = S.dom
            /\ ws = S.ws
            /\ trkLastOp = TrkOp("none", 0, FALSE)
            /\ lastCall = NoCall

ChShortcut ==
    /\ \E initial \in SessionInitials : KeyShortcut(initial, FALSE, FALSE)
    /\ UNCHANGED trkLastOp
ChTypeQuery ==
    /\ \E q \in SessionQueries : TypeQuery(q, FALSE)
    /\ UNCHANGED trkLastOp
ChEnter == PressEnter /\ UNCHANGED trkLastOp
ChMouseDown ==
    /\ \E idx \in DOMAIN dom.renderer.suggestions : MouseDown(idx)
    /\ UNCHANGED trkLastOp
ChDismiss ==
    /\ \E how \in {"escape", "blur"} : Dismiss(how)
    /\ UNCHANGED trkLastOp
ChPointerMove ==
    /\ \E p \in PointerPositions : PointerMove(p[1], p[2])
    /\ UNCHANGED trkLastOp
ChSelect ==
    /\ \E b \in 0..Len(ws.blocks) : HostSelect(b)
    /\ UNCHANGED trkLastOp

NextChoose ==
    \/ ChShortcut
    \/ ChTypeQuery
    \/ ChEnter
    \/ ChMouseDown
    \/ ChDismiss
    \/ ChPointerMove
    \/ ChSelect

SpecChoose == InitChoose /\ [][NextChoose]_vars


(***************************************************************************)
(* Claims about the choose flow                                            *)
(***************************************************************************)
\* The connection manager of the controller the last choose() ran on is
\* there and enabled.
SmartConnectionOn ==
    /\ controllers[lastCall.controller].hasConnectionManager
    /\ controllers[lastCall.controller].connectionManager.enableAutoConnection

\* C6: when the chosen value created no block, the floating input is still
\* visible after choose() has returned.
C6_StaysOpenOnMiss ==
    (lastCall.op = "choose" /\ lastCall.block = 0) => dom.widgetVisible

\* The block the last choose() created is statement-shaped, the workspace
\* held one block before, a statement block with nothing connected, and the
\* point the block was created at lies within the radius of it; smart
\* connection is on.
C9_Case ==
    /\ lastCall.op = "choose"
    /\ lastCall.block # 0
    /\ SmartConnectionOn
    /\ lastCall.blocksBefore = 1
    /\ HasConn(ws, Prev(lastCall.block)) /\ HasConn(ws, Nxt(lastCall.block))
    /\ HasConn(ws, Prev(1)) /\ HasConn(ws, Nxt(1))
    /\ DistanceSquared(clientToWorkspaceCoordinates(ws, lastCall.clientPos.x,
                                                    lastCall.clientPos.y),
                       Position(ExistingStatement.x, ExistingStatement.y))
           <= DefaultConnectionRadius * DefaultConnectionRadius

C10_SelectedFirst ==
    (/\ lastCall.op = "choose"
     /\ lastCall.block # 0
     /\ SmartConnectionOn
     /\ lastCall.selectedAtConfirm # 0)
        => /\ lastCall.targets # <<>>
           /\ lastCall.targets[1] = lastCall.selectedAtConfirm


\* C19: the target list built for the block choose() created does not hold
\* that block.
C19_NeverTargetsItself ==
    (lastCall.op = "choose" /\ lastCall.block # 0)
        => lastCall.block \notin Range(lastCall.targets)


(***************************************************************************)
(* The lifecycle of one TypeBlocking instance: init() with dynamic or      *)
(* static options, any number of times up to MaxInits, dispose(), and in   *)
(* between the shortcut opening the floating input, the user dismissing    *)
(* it, pointer moves, and the host's change events and timers.             *)
(***************************************************************************)
LifecycleInstalls ==
    {InstallOptions(TRUE, TRUE, TRUE, "none", <<>>),
     InstallOptions(TRUE, FALSE, TRUE, "custom", <<>>),
     InstallOptions(FALSE, TRUE, TRUE, "none", ChooseOptions)}

LifecycleEvents ==
    {e \in PlainEvents : e.workspaceId = WorkspaceId /\ e.type \in {"move", "selected"}}

InitLifecycle ==
    \E S \in {Constructed([EmptyWorkspace EXCEPT !.variables = <<Str["x"]>>])} :
        /\ tb = S.tb
        /\ controllers = S.controllers
        /\ generators = S.generators
        /\ patternManager = NoObject
        /\ positioner = NoObject
        /\ trackers = S.trackers
        /\ changeListeners = S.changeListeners
        /\ dom = S.dom
        /\ ws = S.ws
        /\ trkLastOp = TrkOp("none", 0, FALSE)
        /\ lastCall = NoCall

LcInit == \E o \in LifecycleInstalls : CallInit(o)
LcDispose == CallDispose
LcShortcut ==
    /\ \E initial \in SessionInitials : KeyShortcut(initial, FALSE, FALSE)
    /\ UNCHANGED trkLastOp
LcDismiss ==
    /\ \E how \in {"escape", "blur"} : Dismiss(how)
    /\ UNCHANGED trkLastOp
LcHideChaff == HostHideChaff /\ UNCHANGED trkLastOp
LcShowDropDown == HostShowDropDown /\ UNCHANGED trkLastOp
LcPointerMove ==
    /\ \E p \in PointerPositions : PointerMove(p[1], p[2])
    /\ UNCHANGED trkLastOp
LcEvent == \E event \in LifecycleEvents : HostEvent(event)
LcTimer == \E i \in DOMAIN trackers : HostTimer(i)

NextLifecycle ==
    \/ LcInit
    \/ LcDispose
    \/ LcShortcut
    \/ LcDismiss
    \/ LcHideChaff
    \/ LcShowDropDown
    \/ LcPointerMove
    \/ LcEvent
    \/ LcTimer

SpecLifecycle == InitLifecycle /\ [][NextLifecycle]_vars

\* Tracker i still has its listeners registered with the host.
LiveTracker(i) == \E h \in Handlers : <<i, h>> \in changeListeners

C7_HiddenAfterDispose ==
    lastCall.op = "dispose" => ~dom.widgetVisible

\* C8: after dispose(), whatever init() calls came before, no change
\* listener and no pointer-move listener of the pipeline is subscribed and
\* no debounce timer is pending.
C8_NothingLeftAfterDispose ==
    lastCall.op = "dispose" =>
        /\ changeListeners = {}
        /\ dom.pointerListeners = {}
        /\ \A i \in DOMAIN trackers : trackers[i].changeTimeout = NoTimer


(***************************************************************************)
(* Sessions of the floating input with dynamic options: a TypeBlocking     *)
(* installed with the smart, the base or an installer's own generator.     *)
(* The user opens the input, types, dismisses it and declares a variable;  *)
(* the host delivers change events and the debounce timer expires; any     *)
(* call of the generator may throw.                                        *)
(***************************************************************************)
ShowInstalls ==
    {InstallOptions(TRUE, TRUE, TRUE, "none", <<>>),
     InstallOptions(TRUE, FALSE, TRUE, "none", <<>>),
     InstallOptions(TRUE, TRUE, TRUE, "custom", <<>>)}

ShowEvents ==
    {e \in PlainEvents : e.workspaceId = WorkspaceId /\ e.type \in {"var_create", "selected"}}

InitShow ==
    \E o \in ShowInstalls :
        \E S \in {typeBlockingInit(
                      Constructed([EmptyWorkspace EXCEPT !.variables = <<Str["x"]>>]), o)} :
            /\ tb = S.tb
            /\ controllers = S.controllers
            /\ generators = S.generators
            /\ patternManager = NoObject
            /\ positioner = NoObject
            /\ trackers = S.trackers
            /\ changeListeners = S.changeListeners
            /\ dom = S.dom
            /\ ws = S.ws
            /\ trkLastOp = TrkOp("none", 0, FALSE)
            /\ lastCall = NoCall

ShShortcut ==
    /\ \E initial \in SessionInitials, faultLoad \in BOOLEAN, faultRefresh \in BOOLEAN :
          KeyShortcut(initial, faultLoad, faultRefresh)
    /\ UNCHANGED trkLastOp
ShTypeQuery ==
    /\ \E q \in SessionInitials \cup SessionQueries, fault \in BOOLEAN : TypeQuery(q, fault)
    /\ UNCHANGED trkLastOp
ShDismiss ==
    /\ \E how \in {"escape", "blur"} : Dismiss(how)
    /\ UNCHANGED trkLastOp
ShHideChaff == HostHideChaff /\ UNCHANGED trkLastOp
ShCreateVariable == HostCreateVariable(Str["y"]) /\ UNCHANGED trkLastOp
ShEvent == \E event \in ShowEvents : HostEvent(event)
ShTimer == \E i \in DOMAIN trackers : HostTimer(i)

NextShow ==
    \/ ShShortcut
    \/ ShTypeQuery
    \/ ShDismiss
    \/ ShHideChaff
    \/ ShCreateVariable
    \/ ShEvent
    \/ ShTimer

SpecShow == InitShow /\ [][NextShow]_vars

\* The last call was a refresh (in show() or on an input event) that asked
\* the smart generator and got a list back.
SmartAnswered ==
    /\ lastCall.op \in {"show", "input"}
    /\ lastCall.asked
    /\ ~lastCall.generatorThrew

\* C1: the list generateOptionsForInput(q) returns is the one a fresh
\* computation gives on the editor state at the time of the call.
C1_ObservesEditorState ==
    SmartAnswered =>
        lastCall.returned =
            computeOptionsForInput(
                generators[controllers[lastCall.controller].optionGenerator],
                ws, lastCall.query).options

C4_NoEscape ==
    (lastCall.op \in {"show", "input"} /\ lastCall.generatorThrew) => ~lastCall.escaped


(***************************************************************************)
(* SmartBlockPositioner (smart-block-positioner.ts): a BlockPositioner     *)
(* (base) with a connection config of its own.  Every operation gives the  *)
(* positioner and the workspace afterwards, and log, the canConnect and    *)
(* connect calls it made in order.                                         *)
(***************************************************************************)
NewSmartBlockPositioner(config) ==
    [kind |-> "SmartBlockPositioner", base |-> NewBlockPositioner,
     config |-> ConnectionManagerConfig(config)]

\* The selected block first, then the nearby blocks in the order given.
Smart_getPriorizedTargetBlocks(context) ==
    Dedupe((IF context.selectedBlock # 0 THEN <<context.selectedBlock>> ELSE <<>>)
           \o (IF context.hasNearby
               THEN FilterSeq(context.nearbyBlocks,
                              Range(context.nearbyBlocks) \ {context.selectedBlock})
               ELSE <<>>))

Smart_buildConnectionContext(W, sp, newBlock, clientPos, providedContext) ==
    buildConnectionContext(W, sp.config, newBlock, clientPos, providedContext)

\* attemptConnection, its calls appended to log.
Smart_attemptConnection(W, sp, newBlock, context, log) ==
    With(Smart_getPriorizedTargetBlocks(context), LAMBDA targetBlocks :
    With(TryPairs(W, newBlock, PairsOf(targetBlocks, sp.config.strategies), log),
         LAMBDA r :
    [ws |-> r.ws, result |-> r.result, log |-> r.log, targets |-> targetBlocks]))

\* The override: super.positionBlock, then a connection attempt of its own.
Smart_positionBlock(sp, W, block, clientPos) ==
    With(positionBlock(sp.base, W, block, clientPos), LAMBDA p :
    With([sp EXCEPT !.base = p.bp], LAMBDA sp1 :
    IF sp.config.enableAutoConnection
    THEN With(Smart_attemptConnection(
                  p.ws, sp1, block,
                  Smart_buildConnectionContext(p.ws, sp1, block, clientPos, NoContext),
                  <<>>),
              LAMBDA a : [sp |-> sp1, ws |-> a.ws, result |-> a.result, log |-> a.log])
    ELSE [sp |-> sp1, ws |-> p.ws, result |-> NoResult, log |-> <<>>]))

\* this.positionBlock is the override above.
Smart_positionAndConnect(sp, W, block, clientPos, context) ==
    With(Smart_positionBlock(sp, W, block, clientPos), LAMBDA p :
    IF ~p.sp.config.enableAutoConnection
    THEN [sp |-> p.sp, ws |-> p.ws, result |-> NoResult, log |-> p.log]
    ELSE With(Smart_attemptConnection(
                  p.ws, p.sp, block,
                  Smart_buildConnectionContext(p.ws, p.sp, block, clientPos, context),
                  p.log),
              LAMBDA a : [sp |-> p.sp, ws |-> a.ws, result |-> a.result, log |-> a.log]))

Smart_connectBlock(sp, W, block, context) ==
    With(Smart_attemptConnection(
             W, sp, block,
             Smart_buildConnectionContext(W, sp, block, NoPosition, context), <<>>),
         LAMBDA a : [sp |-> sp, ws |-> a.ws, result |-> a.result, log |-> a.log])


(***************************************************************************)
(* Positioners and connection managers on their own: an application        *)
(* creates blocks and hands them to the object it holds.                   *)
(***************************************************************************)
NewStandaloneBlockPositioner == [kind |-> "BlockPositioner", base |-> NewBlockPositioner]

NewConnectionManager(config) ==
    [kind |-> "ConnectionManager", config |-> ConnectionManagerConfig(config)]

\* The number of blocks the application creates, and of calls it makes; it
\* hands the block created last to the object it holds.
MaxCreatedBlocks == 1
MaxPlacements == 4

PositionerBlockTypes == {"text_print", "math_number"}

\* Two statements already on the workspace, the second attached under the
\* first.
ExistingChain ==
    [blocks |-> <<ExistingStatement,
                  [NewBlockRecord("text_print") EXCEPT !.x = 100, !.y = 130]>>,
     links |-> {<<Nxt(1), Prev(2)>>}]

PositionerWorkspaces ==
    {[EmptyWorkspace EXCEPT !.blocks = content.blocks, !.links = content.links,
                            !.strict = strict, !.view.scale = scale] :
        content \in {[blocks |-> <<>>, links |-> {}],
                     [blocks |-> <<ExistingStatement>>, links |-> {}],
                     ExistingChain},
        strict \in BOOLEAN, scale \in {1, 2}}

PositionerObjects ==
    {NewStandaloneBlockPositioner,
     NewSmartBlockPositioner([n \in {} |-> 0]),
     NewSmartBlockPositioner([enableAutoConnection |-> FALSE]),
     NewConnectionManager([n \in {} |-> 0])}

ClientPositions == {NoPosition, Position(100, 100)}

\* clientX ?? divRect.left + divRect.width / 2, and the same for y.
ClientPoint(W, clientPos) ==
    IF clientPos.defined THEN clientPos
    ELSE Position(W.view.divLeft + W.view.divWidth \div 2,
                  W.view.divTop + W.view.divHeight \div 2)

\* History of a run: at is the screen coordinate of the placement made last,
\* run the number of consecutive placements made there, offset what the
\* last placement added to the workspace coordinate of its screen coordinate.
NoPlacement ==
    [op |-> "none", count |-> 0, block |-> 0, at |-> NoPosition, run |-> 0,
     offset |-> Position(0, 0), log |-> <<>>, created |-> 0]

Placed(op, block, clientPos, log) ==
    With(ClientPoint(ws, clientPos), LAMBDA at :
    With(clientToWorkspaceCoordinates(ws, at.x, at.y), LAMBDA base :
    With(positionBlock(positioner.base, ws, block, clientPos).ws.blocks[block], LAMBDA moved :
    [op |-> op, count |-> lastCall.count + 1, block |-> block, at |-> at,
     run |-> IF lastCall.at = at THEN lastCall.run + 1 ELSE 1,
     offset |-> Position(moved.x - ws.blocks[block].x - base.x,
                         moved.y - ws.blocks[block].y - base.y),
     log |-> log, created |-> lastCall.created])))

InitPositioner ==
    /\ ws \in PositionerWorkspaces
    /\ positioner \in PositionerObjects
    /\ patternManager = NoObject
    /\ trackers = <<>>
    /\ changeListeners = {}
    /\ trkLastOp = TrkOp("none", 0, FALSE)
    /\ dom = IdleDom
    /\ tb = NoTypeBlocking
    /\ controllers = <<>>
    /\ generators = <<>>
    /\ lastCall = NoPlacement

PositionerRest == <<trackerVars, dom, pluginVars, patternManager>>

\* The application creates a block (workspace.newBlock).
PCreate ==
    /\ lastCall.created < MaxCreatedBlocks
    /\ \E type \in PositionerBlockTypes :
          ws' = hostNewBlock(ws, type).ws
    /\ lastCall' = [lastCall EXCEPT !.op = "create", !.log = <<>>,
                                    !.created = @ + 1]
    /\ UNCHANGED <<positioner, PositionerRest>>

\* BlockPositioner.positionBlock(block, clientX, clientY)
PPositionBlock ==
    /\ positioner.kind = "BlockPositioner"
    /\ lastCall.count < MaxPlacements
    /\ \E block \in {NewestBlock(ws)} \ {0} : \E clientPos \in ClientPositions :
       \E r \in {positionBlock(positioner.base, ws, block, clientPos)} :
          /\ ws' = r.ws
          /\ positioner' = [positioner EXCEPT !.base = r.bp]
          /\ lastCall' = Placed("positionBlock", block, clientPos, <<>>)
    /\ UNCHANGED PositionerRest

\* SmartBlockPositioner.positionBlock(block, clientX, clientY)
PSmartPositionBlock ==
    /\ positioner.kind = "SmartBlockPositioner"
    /\ lastCall.count < MaxPlacements
    /\ \E block \in {NewestBlock(ws)} \ {0} : \E clientPos \in ClientPositions :
       \E r \in {Smart_positionBlock(positioner, ws, block, clientPos)} :
          /\ ws' = r.ws
          /\ positioner' = r.sp
          /\ lastCall' = Placed("positionBlock", block, clientPos, r.log)
    /\ UNCHANGED PositionerRest

\* SmartBlockPositioner.positionAndConnect(block, clientX, clientY)
PPositionAndConnect ==
    /\ positioner.kind = "SmartBlockPositioner"
    /\ lastCall.count < MaxPlacements
    /\ \E block \in {NewestBlock(ws)} \ {0} : \E clientPos \in ClientPositions :
       \E r \in {Smart_positionAndConnect(positioner, ws, block, clientPos, NoContext)} :
          /\ ws' = r.ws
          /\ positioner' = r.sp
          /\ lastCall' = Placed("positionAndConnect", block, clientPos, r.log)
    /\ UNCHANGED PositionerRest

\* SmartBlockPositioner.connectBlock(block)
PConnectBlock ==
    /\ positioner.kind = "SmartBlockPositioner"
    /\ lastCall.count < MaxPlacements
    /\ \E block \in {NewestBlock(ws)} \ {0} :
       \E r \in {Smart_connectBlock(positioner, ws, block, NoContext)} :
          /\ ws' = r.ws
          /\ lastCall' = [lastCall EXCEPT !.op = "connectBlock",
                                          !.count = lastCall.count + 1,
                                          !.block = block, !.log = r.log]
    /\ UNCHANGED <<positioner, PositionerRest>>

\* ConnectionManager.attemptConnection(newBlock, clientX, clientY)
PAttemptConnection ==
    /\ positioner.kind = "ConnectionManager"
    /\ lastCall.count < MaxPlacements
    /\ \E block \in {NewestBlock(ws)} \ {0} : \E clientPos \in ClientPositions :
       \E r \in {attemptConnection(ws, positioner.config, block, clientPos, NoContext)} :
          /\ ws' = r.ws
          /\ lastCall' = [lastCall EXCEPT !.op = "attemptConnection",
                                          !.count = lastCall.count + 1,
                                          !.block = block, !.log = r.log]
    /\ UNCHANGED <<positioner, PositionerRest>>

NextPositioner ==
    \/ PCreate
    \/ PPositionBlock
    \/ PSmartPositionBlock
    \/ PPositionAndConnect
    \/ PConnectBlock
    \/ PAttemptConnection

SpecPositioner == InitPositioner /\ [][NextPositioner]_vars

\* C11: for every entry point, no canConnect or connect call is made for the
\* block after a connect call of that entry point has reported success.
C11_StopsAtFirstSuccess ==
    lastCall.op \in {"positionBlock", "positionAndConnect", "connectBlock",
                     "attemptConnection"}
        => \A i \in DOMAIN lastCall.log :
              lastCall.log[i][3] = "success" => i = Len(lastCall.log)


\* C18: the n-th placement of a run of consecutive placements at one screen
\* coordinate is shifted by (n-1) * 30 / scale on both axes; the first
\* placement at a coordinate, and so the first after a change, by 0.
C18_DiagonalOffset ==
    lastCall.op \in {"positionBlock", "positionAndConnect"}
        => /\ lastCall.offset.x = ((lastCall.run - 1) * OFFSET_STEP) \div ws.view.scale
           /\ lastCall.offset.y = lastCall.offset.x

\* The third placement in a row at one coordinate, on a workspace zoomed to
\* scale 2, with a placement elsewhere before the run.
C18_Witness ==
    /\ lastCall.op = "positionBlock"
    /\ lastCall.run = 3
    /\ lastCall.count = 4
    /\ ws.view.scale = 2
    /\ lastCall.offset.x = 30

\* C20: a connection strategy whose connect() reports failure leaves the
\* workspace's connections exactly as they were before the attempt; in
\* particular a target that was detached from its predecessor on the way is
\* attached to it again.
C20_FailureLeavesLinks ==
    \A i \in DOMAIN lastCall.log :
        lastCall.log[i][3] = "failed" => lastCall.log[i][4]


\* The reference detection of an input over the manager's patterns:
\* the first pattern in the order of the list that matches with a
\* confidence of 0.95 or more and of the threshold or more; failing that the
\* matching pattern of the highest confidence that reaches the threshold,
\* the earliest on ties; failing that nothing.
ReferenceDetection(pm, input) ==
    LET match(i) == PatternRegex(pm.patterns[i].name, input)
        confidence(i) == calculateConfidence(pm.patterns[i], match(i), input)
        eligible == {i \in DOMAIN pm.patterns :
                        match(i).matched /\ confidence(i) >= pm.config.confidenceThreshold}
        perfect == {i \in eligible : confidence(i) >= PerfectConfidence}
        first(S) == CHOOSE i \in S : \A j \in S : i <= j
        best == first({i \in eligible : \A j \in eligible : confidence(j) <= confidence(i)})
        result(i) == Detection(pm.patterns[i], match(i), confidence(i))
    IN  IF perfect # {} THEN result(first(perfect))
        ELSE IF eligible # {} THEN result(best)
        ELSE NoDetection

(***************************************************************************)
(* An InputPatternManager on its own: the application constructs it from a *)
(* PatternConfig, registers the built-in patterns, changes the             *)
(* configuration and asks for detections; and a controller constructed     *)
(* from the same kind of configuration is asked to choose a text.          *)
(***************************************************************************)
PatternConfigs ==
    {NoConfig,
     [enableBooleanDetection |-> FALSE],
     [customPatterns |-> <<CustomPattern>>],
     [enableBooleanDetection |-> FALSE, customPatterns |-> <<CustomPattern>>]}

\* Configurations with priorities of the application's own.
PriorityConfigs ==
    {[patternPriorities |-> [boolean |-> 120]],
     [patternPriorities |-> [text |-> 0], customPatterns |-> <<CustomPattern>>]}

ConfigUpdates ==
    {[enableBooleanDetection |-> FALSE],
     [enableBooleanDetection |-> TRUE],
     [enableNumberDetection |-> FALSE],
     [customPatterns |-> <<CustomPattern>>]}

DetectInputs == {Str["42"], Str["true"], <<"y", "e", "s">>}

\* The number of calls made on the manager, and of choose() calls.
MaxPatternCalls == 5
MaxChooseCalls == 1

NoPatternCall == [op |-> "none", count |-> 0, chosen |-> 0]

PatternCalled(op, fields) ==
    fields @@ [op |-> op, count |-> lastCall.count + 1, chosen |-> lastCall.chosen]

InitPatternManager ==
    /\ patternManager \in {NewInputPatternManager(c) : c \in PatternConfigs \cup PriorityConfigs}
    /\ ws = EmptyWorkspace
    /\ positioner = NoObject
    /\ trackers = <<>>
    /\ changeListeners = {}
    /\ trkLastOp = TrkOp("none", 0, FALSE)
    /\ dom = IdleDom
    /\ tb = NoTypeBlocking
    /\ controllers = <<>>
    /\ generators = <<>>
    /\ lastCall = NoPatternCall

PatternRest == <<trackerVars, dom, pluginVars, positioner>>

PmDetect ==
    /\ lastCall.count < MaxPatternCalls
    /\ \E input \in DetectInputs :
       \E r \in {detectPattern(patternManager, input)} :
          /\ patternManager' = r.pm
          /\ lastCall' = PatternCalled("detectPattern",
                             [input |-> input, result |-> r.result,
                              uncached |-> detectFrom(patternManager, input, 1, NoDetection),
                              reference |-> ReferenceDetection(patternManager, input)])
    /\ UNCHANGED <<ws, PatternRest>>

PmRegister ==
    /\ lastCall.count < MaxPatternCalls
    /\ patternManager' = registerBuiltinPatterns(patternManager, getBuiltinPatterns)
    /\ lastCall' = PatternCalled("registerBuiltinPatterns", [n \in {} |-> 0])
    /\ UNCHANGED <<ws, PatternRest>>

PmUpdateConfig ==
    /\ lastCall.count < MaxPatternCalls
    /\ \E newConfig \in ConfigUpdates :
          /\ patternManager' = updateConfig(patternManager, newConfig)
          /\ lastCall' = PatternCalled("updateConfig", [newConfig |-> newConfig])
    /\ UNCHANGED <<ws, PatternRest>>

PmClearCache ==
    /\ lastCall.count < MaxPatternCalls
    /\ patternManager' = clearCache(patternManager)
    /\ lastCall' = PatternCalled("clearCache", [n \in {} |-> 0])
    /\ UNCHANGED <<ws, PatternRest>>

\* new FloatingInputController(ws, {patternConfig, ...}) and the choice of a
\* text in its floating input.
PmChoose ==
    /\ lastCall.chosen < MaxChooseCalls
    /\ \E patternConfig \in PatternConfigs : \E value \in DetectInputs :
       \E r \in {choose(NewFloatingInputController(
                            [options |-> <<>>, optionGenerator |-> 0,
                             enableSmartConnection |-> TRUE,
                             enablePatternRecognition |-> TRUE,
                             patternConfig |-> patternConfig,
                             connectionConfig |-> NoConfig]),
                        ws, value)} :
          /\ ws' = r.ws
          /\ lastCall' = [op |-> "choose", count |-> lastCall.count,
                          chosen |-> lastCall.chosen + 1,
                          patternConfig |-> patternConfig, value |-> value,
                          block |-> r.block, blocksBefore |-> Len(ws.blocks)]
    /\ UNCHANGED <<patternManager, PatternRest>>

NextPatternManager ==
    \/ PmDetect
    \/ PmRegister
    \/ PmUpdateConfig
    \/ PmClearCache
    \/ PmChoose

SpecPatternManager == InitPatternManager /\ [][NextPatternManager]_vars

\* C12: every detectPattern call returns what an uncached detection over
\* the patterns and configuration of that moment returns.
C12_CacheAgrees ==
    lastCall.op = "detectPattern" => lastCall.result = lastCall.uncached


\* C15: detectPattern never returns a built-in pattern whose enable flag is
\* false in the configuration, and the custom patterns of the configuration
\* are registered at every moment; a controller constructed with boolean
\* detection disabled creates no block when `true` is chosen.
C15_DisabledNeverDetected ==
    /\ \A i \in DOMAIN patternManager.config.customPatterns :
          patternManager.config.customPatterns[i] \in Range(patternManager.patterns)
    /\ (lastCall.op = "detectPattern" /\ lastCall.result.found)
          => \/ lastCall.result.pattern.name = CustomPatternName
             \/ patternManager.config.enabled[lastCall.result.pattern.name]
    /\ (/\ lastCall.op = "choose"
        /\ lastCall.value = Str["true"]
        /\ "enableBooleanDetection" \in DOMAIN lastCall.patternConfig
        /\ ~lastCall.patternConfig.enableBooleanDetection)
          => lastCall.block = 0 /\ Len(ws.blocks) = lastCall.blocksBefore

\* `true` is detected on a manager that had the boolean pattern registered
\* and enabled before updateConfig disabled it, with a custom pattern in the
\* configuration.
C15_Witness ==
    /\ lastCall.op = "detectPattern"
    /\ lastCall.input = Str["true"]
    /\ ~lastCall.result.found
    /\ ~patternManager.config.enabled.boolean
    /\ patternManager.config.customPatterns # <<>>
    /\ \E i \in DOMAIN patternManager.patterns : patternManager.patterns[i].name = "number"

\* C23: detectPattern(input) returns the reference detection of the input
\* over the registered patterns, which are in descending order of priority.
C23_DetectIsReference ==
    lastCall.op = "detectPattern"
        => /\ lastCall.result = lastCall.reference
           /\ \A i, j \in DOMAIN patternManager.patterns :
                 i < j => patternManager.patterns[i].priority
                              >= patternManager.patterns[j].priority

\* The priority the configuration gives a pattern: the value configured for
\* its name in patternPriorities when there is one, else the pattern's own.
EffectivePriority(pm, name) ==
    IF name \in DOMAIN pm.config.patternPriorities
    THEN pm.config.patternPriorities[name]
    ELSE IF name = CustomPatternName THEN CustomPattern.priority
    ELSE (CHOOSE b \in Range(getBuiltinPatterns) : b.name = name).priority

\* C24: after registerBuiltinPatterns the registered patterns are in
\* descending order of effective priority, a configured priority of 0
\* counting as configured.
C24_SortedByEffectivePriority ==
    lastCall.op = "registerBuiltinPatterns"
        => \A i, j \in DOMAIN patternManager.patterns :
              i < j => EffectivePriority(patternManager, patternManager.patterns[i].name)
                          >= EffectivePriority(patternManager, patternManager.patterns[j].name)


\* The events of the tracked workspace whose kind is on the ignore list.
IrrelevantEvents ==
    {e \in PlainEvents :
        /\ e.workspaceId = WorkspaceId
        /\ e.type \in {"selected", "click", "theme_change", "viewport_change"}}

\* C13: the delivery of a selection, click, theme-change or viewport-change
\* event of the tracked workspace leaves a clean tracker clean, and so does
\* the expiry of the debounce timer.
C13_IrrelevantKeepsClean ==
    [][\A i \in DOMAIN trackers :
          (/\ i \in DOMAIN trackers'
           /\ ~trackers[i].needsReload
           /\ \/ /\ trkLastOp'.op = "event"
                 /\ \E e \in IrrelevantEvents : trackers' = DeliveredTrackers(e)
              \/ /\ trkLastOp'.op = "timer"
                 /\ trackers[i].changeTimeout # NoTimer
                 /\ trackers[i].changeTimeout \in
                        {addWorkspaceChangeListener(trackers[i], e).changeTimeout :
                            e \in IrrelevantEvents})
             => ~trackers'[i].needsReload]_vars


(***************************************************************************)
(* A SmartOptionGenerator on its own: the application asks it for the      *)
(* options of the editor's state, and for the options of an input, while   *)
(* the user selects blocks.                                                *)
(***************************************************************************)
\* A procedure definition named name with the parameter x.
ProcedureDefinition(name) ==
    [NewBlockRecord("procedures_defnoreturn") EXCEPT
        !.fields = [f \in {"NAME"} |-> name], !.params = <<Str["x"]>>]

OptionWorkspaces ==
    {[EmptyWorkspace EXCEPT !.blocks = blocks, !.variables = variables,
                            !.registered = registered] :
        blocks \in {<<>>, <<ProcedureDefinition(Str["go"])>>,
                    <<ProcedureDefinition(Str["true"]), ProcedureDefinition(Str["go"])>>,
                    <<[ProcedureDefinition(Str["print"]) EXCEPT !.params = <<>>],
                      ProcedureDefinition(Str["go"])>>},
        variables \in {<<>>, <<Str["x"]>>, <<Str["x"], Str["y"]>>},
        registered \in {BlockTypes, {"text", "math_number", "procedures_defnoreturn"}}}

OptionInputs ==
    {<<>>, Str["t"], Str["x"], Str["true"], Str["42"], Str["get x"], Str["go"],
     Str["set x to 5"]}

\* The number of calls made on the generator.
MaxOptionCalls == 2

NoOptionCall == [op |-> "none", count |-> 0, options |-> <<>>]

InitOptions ==
    /\ ws \in OptionWorkspaces
    /\ generators \in {<<setScopeAnalyzer(NewSmartOptionGenerator(NoConfig))>>,
                       <<NewSmartOptionGenerator(NoConfig)>>}
    /\ patternManager = NoObject
    /\ positioner = NoObject
    /\ trackers = <<>>
    /\ changeListeners = {}
    /\ trkLastOp = TrkOp("none", 0, FALSE)
    /\ dom = IdleDom
    /\ tb = NoTypeBlocking
    /\ controllers = <<>>
    /\ lastCall = NoOptionCall

OptionRest == <<trackerVars, dom, tb, controllers, standaloneVars>>

OGenerateOptions ==
    /\ lastCall.count < MaxOptionCalls
    /\ lastCall' = [op |-> "generateOptions", count |-> lastCall.count + 1,
                    options |-> generateOptions(ws, generators[1].hasScopeAnalyzer)]
    /\ UNCHANGED <<ws, generators, OptionRest>>

OGenerateOptionsForInput ==
    /\ lastCall.count < MaxOptionCalls
    /\ \E input \in OptionInputs :
       \E r \in {generateOptionsForInput(generators[1], ws, input)} :
          /\ generators' = <<r.gen>>
          /\ lastCall' = [op |-> "generateOptionsForInput", count |-> lastCall.count + 1,
                          options |-> r.options]
    /\ UNCHANGED <<ws, OptionRest>>

\* scopeAnalyzer.getLocalVariablesInScope()
OLocalVariables ==
    /\ lastCall.count < MaxOptionCalls
    /\ lastCall' = [op |-> "getLocalVariablesInScope", count |-> lastCall.count + 1,
                    options |-> getLocalVariablesInScope(ws)]
    /\ UNCHANGED <<ws, generators, OptionRest>>

\* The user selects a block, or clears the selection.
OSelect ==
    /\ \E block \in (DOMAIN ws.blocks \cup {0}) \ {ws.selected} :
          ws' = select(ws, block)
    /\ lastCall' = [lastCall EXCEPT !.op = "select", !.options = <<>>]
    /\ UNCHANGED <<generators, OptionRest>>

NextOptions ==
    \/ OGenerateOptions
    \/ OGenerateOptionsForInput
    \/ OLocalVariables
    \/ OSelect

SpecOptions == InitOptions /\ [][NextOptions]_vars

\* C14: no list returned by generateOptions() or generateOptionsForInput()
\* holds two entries with the same blockType and the same displayText.
C14_NoDuplicatePairs ==
    lastCall.op \in {"generateOptions", "generateOptionsForInput"}
        => \A i, j \in DOMAIN lastCall.options :
              (/\ lastCall.options[i].blockType = lastCall.options[j].blockType
               /\ lastCall.options[i].displayText = lastCall.options[j].displayText)
                  => i = j

\* Options for the input `t` on a workspace whose variable x is also the
\* parameter in scope, whose procedure is named like the fallback entry
\* `true`, and where the fallback entry `text` is a block type as well.
C14_Witness ==
    /\ lastCall.op = "generateOptionsForInput"
    /\ generators[1].lastInput = Str["t"]
    /\ Str["x"] \in Range(ws.variables)
    /\ generators[1].hasScopeAnalyzer
    /\ Str["x"] \in Range(getLocalVariablesInScope(ws))
    /\ createOption(Str["true"]) \in Range(lastCall.options)
    /\ createOption(Str["text"]) \in Range(lastCall.options)
    /\ Len(lastCall.options) < 10

\* C26: with the selected block in or at a procedure definition,
\* getLocalVariablesInScope() returns that procedure's parameters and no
\* others, none when it has none; without such a selection it returns the
\* parameters of all procedures.
C26_OnlyEnclosingParameters ==
    lastCall.op = "getLocalVariablesInScope"
        => IF findEnclosingProcedure(ws, ws.selected) # 0
           THEN lastCall.options = ws.blocks[findEnclosingProcedure(ws, ws.selected)].params
           ELSE Range(lastCall.options)
                    = UNION {Range(ws.blocks[b].params) :
                                b \in {c \in DOMAIN ws.blocks : isProcedureDefinitionBlock(ws, c)}}


(***************************************************************************)
(* The built-in patterns as functions of the text typed: a text is drawn   *)
(* from the bounded texts, a manager set up as the controller sets it up   *)
(* detects it, and the assignment pattern parses `set <ident> to <text>`.  *)
(***************************************************************************)
MaxInputLen == 4

ParseAlphabet == {"-", ".", "0", "7", "\"", "'", " ", "a"}

BooleanWords ==
    {Str["true"], Str["false"], Str["TRUE"], Str["FALSE"],
     <<"T", "r", "u", "e">>, <<"t", "r", "u", "e", " ">>}

ParseInputs ==
    UNION {[1..k -> ParseAlphabet] : k \in 0..MaxInputLen} \cup BooleanWords

Identifiers == {Str["x"], <<"t", "o">>, <<"s", "e", "t", "_", "1">>}

NoParse == [op |-> "none", input |-> <<>>]

InitParse ==
    /\ lastCall \in {[NoParse EXCEPT !.input = s] : s \in ParseInputs}
    /\ ws = EmptyWorkspace
    /\ patternManager = registerBuiltinPatterns(NewInputPatternManager(NoConfig),
                                                getBuiltinPatterns)
    /\ positioner = NoObject
    /\ trackers = <<>>
    /\ changeListeners = {}
    /\ trkLastOp = TrkOp("none", 0, FALSE)
    /\ dom = IdleDom
    /\ tb = NoTypeBlocking
    /\ controllers = <<>>
    /\ generators = <<>>

ParseRest == <<trackerVars, hostVars, pluginVars, positioner>>

\* detectPattern(input) on the manager, and parseInput of the pattern found
\* on its match; the cache is cleared for the next text.
PaDetect ==
    /\ lastCall.op = "none"
    /\ \E d \in {detectPattern(patternManager, lastCall.input)} :
          /\ lastCall' = [op |-> "detectPattern", input |-> lastCall.input,
                          result |-> d.result,
                          instruction |-> IF d.result.found
                                          THEN parseInput(d.result.pattern.name,
                                                          d.result.match)
                                          ELSE NoInstruction]
          /\ patternManager' = clearCache(d.pm)
    /\ UNCHANGED ParseRest

\* VariableAssignmentPattern.parseInput on the match of
\* `set <ident> to <text>`.
PaParseAssignment ==
    /\ lastCall.op = "none"
    /\ \E ident \in Identifiers :
       \E match \in {VariableAssignmentRegex(Str["set "] \o ident \o Str[" to "]
                                                 \o lastCall.input)} :
          /\ match.matched
          /\ lastCall' = [op |-> "parseAssignment", input |-> lastCall.input,
                          ident |-> ident,
                          instruction |-> VariableAssignmentPattern_parseInput(match)]
    /\ UNCHANGED <<patternManager, ParseRest>>

NextParse ==
    \/ PaDetect
    \/ PaParseAssignment

SpecParse == InitParse /\ [][NextParse]_vars

\* The literal grammars, spelled out: an optional sign, digits, an optional
\* point, and at least one digit at the end; a quote, any text, a quote;
\* true or false in any case.
IsNumberLiteral(s) ==
    \E sign \in {0, 1} : \E point \in sign..Len(s) :
        /\ sign = 1 => (Len(s) >= 1 /\ s[1] = "-")
        /\ \A i \in (sign + 1)..point : s[i] \in Digits \cup {"."}
        /\ \A i \in (sign + 1)..(point - 1) : s[i] \in Digits
        /\ point < Len(s)
        /\ \A i \in (point + 1)..Len(s) : s[i] \in Digits

IsTextLiteral(s) == Len(s) >= 2 /\ s[1] \in {"\"", "'"} /\ s[Len(s)] \in {"\"", "'"}

IsBooleanLiteral(s) ==
    /\ Len(s) \in {4, 5}
    /\ [i \in DOMAIN s |-> IF s[i] \in UpperLetters THEN LowerOf[s[i]] ELSE s[i]]
           \in {<<"t", "r", "u", "e">>, <<"f", "a", "l", "s", "e">>}

\* What the number, text or boolean pattern gives for the literal alone.
ParsedAlone(s) ==
    CASE IsNumberLiteral(s) -> parseInput("number", PatternRegex("number", s))
      [] IsTextLiteral(s) -> parseInput("text", PatternRegex("text", s))
      [] IsBooleanLiteral(s) -> parseInput("boolean", PatternRegex("boolean", s))

\* C16: `set <ident> to <literal>` parses to a variables_set instruction
\* with one child, on VALUE, whose instruction is what the literal's own
\* pattern gives for the literal alone.
C16_AssignmentChild ==
    (/\ lastCall.op = "parseAssignment"
     /\ IsNumberLiteral(lastCall.input) \/ IsTextLiteral(lastCall.input)
            \/ IsBooleanLiteral(lastCall.input))
        => /\ lastCall.instruction # NoInstruction
           /\ lastCall.instruction.blockType = "variables_set"
           /\ Len(lastCall.instruction.children) = 1
           /\ lastCall.instruction.children[1].input = "VALUE"
           /\ lastCall.instruction.children[1].instruction = ParsedAlone(lastCall.input)

\* A quoted text with a blank inside is assigned to the variable named to.
C16_Witness ==
    /\ lastCall.op = "parseAssignment"
    /\ lastCall.ident = <<"t", "o">>
    /\ lastCall.input = <<"\"", " ", "a", "'">>
    /\ lastCall.instruction.children[1].instruction.blockType = "text"

\* C17: a text of the number grammar is detected as the number pattern with
\* confidence 0.95 or more, and parses to math_number with NUM the text.
C17_NumberDetected ==
    (lastCall.op = "detectPattern" /\ IsNumberLiteral(lastCall.input))
        => /\ lastCall.result.found
           /\ lastCall.result.pattern.name = "number"
           /\ lastCall.result.confidence >= 950
           /\ lastCall.result.confidence <= 1000
           /\ lastCall.instruction.blockType = "math_number"
           /\ DOMAIN lastCall.instruction.fieldValues = {"NUM"}
           /\ lastCall.instruction.fieldValues["NUM"] = lastCall.input

\* The text -.07 is detected.
C17_Witness ==
    /\ lastCall.op = "detectPattern"
    /\ lastCall.input = <<"-", ".", "0", "7">>
    /\ lastCall.result.found
    /\ lastCall.result.confidence = 1000


(***************************************************************************)
(* SpecStrategy: the connection strategies called one at a time.  The      *)
(* workspace holds two blocks, the second attached to a socket of the      *)
(* first or lying free; the application creates a block and calls          *)
(* strategy.connect(newBlock, targetBlock).                                *)
(***************************************************************************)
MaxStrategyBlocks == 1
MaxStrategyCalls == 2

StrategyBlockTypes ==
    {"text_print", "event_step", "state_step", "controls_if",
     "procedures_defnoreturn", "math_number"}

\* The sockets of block 1 that can hold block 2, and no socket at all.
StrategySockets == {NoConnection, Nxt(1), <<1, "DO0">>, <<1, "BODY">>}

StrategyWorkspaces ==
    {W \in {[EmptyWorkspace EXCEPT
                !.registered = @ \cup DOMAIN ApplicationBlockDefs,
                !.blocks = <<NewBlockRecord(upper), NewBlockRecord(lower)>>,
                !.links = IF socket = NoConnection THEN {} ELSE {<<socket, Prev(2)>>},
                !.strict = strict] :
                upper \in {"text_print", "event_step", "state_step", "controls_if",
                           "event_hat"},
                lower \in {"text_print", "event_step", "state_step"},
                socket \in StrategySockets,
                strict \in BOOLEAN} :
        \A l \in W.links : HostCanConnect([W EXCEPT !.links = {}], l[1], l[2])}

\* History: the strategy called, its arguments, the connections and the
\* target's predecessor socket before the call, what canConnect answered
\* before the call and what connect reported.
NoStrategyCall ==
    [op |-> "none", count |-> 0, created |-> 0, strategy |-> "none", newBlock |-> 0,
     target |-> 0, before |-> {}, pred |-> NoConnection, can |-> FALSE,
     success |-> FALSE]

InitStrategy ==
    /\ ws \in StrategyWorkspaces
    /\ patternManager = NoObject
    /\ positioner = NoObject
    /\ trackers = <<>>
    /\ changeListeners = {}
    /\ trkLastOp = TrkOp("none", 0, FALSE)
    /\ dom = IdleDom
    /\ tb = NoTypeBlocking
    /\ controllers = <<>>
    /\ generators = <<>>
    /\ lastCall = NoStrategyCall

StrategyRest == <<trackerVars, dom, pluginVars, standaloneVars>>

\* The application creates a block (workspace.newBlock).
SCreate ==
    /\ lastCall.created < MaxStrategyBlocks
    /\ \E type \in StrategyBlockTypes :
          ws' = hostNewBlock(ws, type).ws
    /\ lastCall' = [lastCall EXCEPT !.op = "create", !.created = @ + 1]
    /\ UNCHANGED StrategyRest

\* strategy.connect(newBlock, targetBlock) on the block created last.
SConnect ==
    /\ lastCall.created > 0
    /\ lastCall.count < MaxStrategyCalls
    /\ \E strategy \in Range(getDefaultStrategies) :
       \E targetBlock \in 1..Len(ws.blocks) :
       \E newBlock \in {NewestBlock(ws)} :
       \E r \in {connect(strategy, ws, newBlock, targetBlock)} :
          /\ ws' = r.ws
          /\ lastCall' = [lastCall EXCEPT
                            !.op = "connect", !.count = @ + 1,
                            !.strategy = strategy, !.newBlock = newBlock,
                            !.target = targetBlock, !.before = ws.links,
                            !.pred = targetConnection(ws, Prev(targetBlock)),
                            !.can = canConnect(strategy, ws, newBlock, targetBlock),
                            !.success = r.success]
    /\ UNCHANGED StrategyRest

NextStrategy ==
    \/ SCreate
    \/ SConnect

SpecStrategy == InitStrategy /\ [][NextStrategy]_vars

\* C21: whenever Control wrapping reports success on a target that had a
\* predecessor, the predecessor's socket is afterwards connected to the new
\* block's leading socket, whatever new block with a statement-holding socket
\* was given.
C21_PredecessorReattached ==
    (/\ lastCall.op = "connect"
     /\ lastCall.strategy = "Wrapper"
     /\ lastCall.success
     /\ lastCall.pred # NoConnection)
        => targetConnection(ws, lastCall.pred) = Prev(lastCall.newBlock)

\* C22: Statement insertion's canConnect() is false for every new block whose
\* leading socket is type-incompatible with the socket of the target's
\* predecessor that connect() would reattach to it.
C22_InsertionChecksPredecessor ==
    (/\ lastCall.op = "connect"
     /\ lastCall.strategy = "StatementInsertion"
     /\ lastCall.pred # NoConnection
     /\ HasConn(ws, Prev(lastCall.newBlock))
     /\ ~ChecksMatch(ConnCheck(ws, Prev(lastCall.newBlock)), ConnCheck(ws, lastCall.pred)))
        => ~lastCall.can


(***************************************************************************)
(* SpecRegistry: the operations of the pipeline against the host's         *)
(* registries.  init() is called in dynamic mode, in static mode with an   *)
(* option list and in static mode without one (the legacy list); options   *)
(* are generated, texts detected and blocks created.                       *)
(***************************************************************************)
MaxRegistryCalls == 3

\* Static mode without an option list.
LegacyInstall ==
    [enableDynamicOptions |-> FALSE, enablePatternRecognition |-> TRUE,
     enableSmartConnection |-> TRUE, optionGenerator |-> "none"]

RegistryInstalls ==
    {InstallOptions(TRUE, TRUE, TRUE, "none", <<>>),
     InstallOptions(TRUE, FALSE, TRUE, "none", <<>>),
     InstallOptions(FALSE, TRUE, TRUE, "none", ChooseOptions),
     LegacyInstall}

RegistryWorkspaces ==
    {[EmptyWorkspace EXCEPT !.variables = variables,
                            !.typeblock = [t \in BlockTypes |->
                                IF t = "text_print" THEN alias ELSE {}]] :
        variables \in {<<>>, <<Str["x"]>>}, alias \in {{}, {Str["print"]}}}

RegistryValues == {Str[t] : t \in {"get x", "get y", "set x to", "set y to", "text_print"}}

RegistryInstructions ==
    {Literal("variables_get", "VAR", Str["x"]),
     Literal("variables_get", "VAR", Str["y"]),
     Literal("math_number", "NUM", Str["4"])}

\* The host's registries: the declared variables, and the block types with
\* the properties of their definitions.
Registry(W) == [variables |-> W.variables, registered |-> W.registered,
                typeblock |-> W.typeblock]

NoRegistryCall == [op |-> "none", count |-> 0, before |-> Registry(EmptyWorkspace)]

RegistryCalled(op, fields) ==
    fields @@ [op |-> op, count |-> lastCall.count + 1, before |-> Registry(ws)]

InitRegistry ==
    \E S \in {Constructed(W) : W \in RegistryWorkspaces} :
        /\ tb = S.tb
        /\ controllers = S.controllers
        /\ generators = S.generators
        /\ patternManager = NoObject
        /\ positioner = NoObject
        /\ trackers = S.trackers
        /\ changeListeners = S.changeListeners
        /\ dom = S.dom
        /\ ws = S.ws
        /\ trkLastOp = TrkOp("none", 0, FALSE)
        /\ lastCall = NoRegistryCall

\* init(options)
RgInit ==
    /\ lastCall.count < MaxRegistryCalls
    /\ \E o \in RegistryInstalls : \E S \in {typeBlockingInit(Cur, o)} :
          /\ Become(S)
          /\ lastCall' = RegistryCalled("init", [legacy |-> "options" \notin DOMAIN o])
    /\ UNCHANGED trkLastOp

\* optionGenerator.generateOptions() of the generator init() installed
RgGenerateOptions ==
    /\ lastCall.count < MaxRegistryCalls
    /\ tb.optionGenerator # 0
    /\ lastCall' = RegistryCalled("generateOptions",
                       [options |-> generatorOptions(generators[tb.optionGenerator], ws)])
    /\ UNCHANGED <<trackerVars, hostVars, pluginVars, standaloneVars>>

\* patternManager.detectPattern(input) of a controller's pattern manager
RgDetect ==
    /\ lastCall.count < MaxRegistryCalls
    /\ \E input \in DetectInputs :
          lastCall' = RegistryCalled("detectPattern",
              [input |-> input,
               result |-> detectPattern(
                   registerBuiltinPatterns(NewInputPatternManager(NoConfig),
                                           getBuiltinPatterns), input).result])
    /\ UNCHANGED <<trackerVars, hostVars, pluginVars, standaloneVars>>

\* blockFactory.createBlock(value)
RgCreateBlock ==
    /\ lastCall.count < MaxRegistryCalls
    /\ \E value \in RegistryValues : \E r \in {createBlock(ws, value)} :
          /\ ws' = r.ws
          /\ lastCall' = RegistryCalled("createBlock", [value |-> value, block |-> r.block])
    /\ UNCHANGED <<trackerVars, dom, pluginVars, standaloneVars>>

\* blockFactory.createBlockFromInstruction(instruction)
RgCreateFromInstruction ==
    /\ lastCall.count < MaxRegistryCalls
    /\ \E instruction \in RegistryInstructions :
       \E r \in {createBlockFromInstruction(ws, instruction)} :
          /\ ws' = r.ws
          /\ lastCall' = RegistryCalled("createBlockFromInstruction",
                             [instruction |-> instruction, block |-> r.block])
    /\ UNCHANGED <<trackerVars, dom, pluginVars, standaloneVars>>

NextRegistry ==
    \/ RgInit
    \/ RgGenerateOptions
    \/ RgDetect
    \/ RgCreateBlock
    \/ RgCreateFromInstruction

SpecRegistry == InitRegistry /\ [][NextRegistry]_vars

\* C25: no operation changes the host's variables or its block types and
\* their definitions, in dynamic and in static mode, but for
\* createBlockFromInstruction, which may declare a variable.
C25_RegistriesReadOnly ==
    lastCall.op # "none"
        => /\ Registry(ws).registered = lastCall.before.registered
           /\ Registry(ws).typeblock = lastCall.before.typeblock
           /\ \/ Registry(ws).variables = lastCall.before.variables
              \/ lastCall.op = "createBlockFromInstruction"


(***************************************************************************)
(* SpecDebounce: one tracker under a clock.  The host delivers change      *)
(* events, time passes in steps of TickStep ms, and a timer set with       *)
(* setTimeout(f, DebounceDelay) runs f when DebounceDelay ms have passed   *)
(* since it was set, unless it was cleared before.  The history holds the  *)
(* clock, the time of the last event of the tracked workspace, the time    *)
(* the pending timer was set, the number of debounced checks run since     *)
(* that event, and whether dispose() was called.                           *)
(***************************************************************************)
DebounceDelay == 100
TickStep == DebounceDelay \div 2
MaxTime == 400

DebounceEvents ==
    {e \in PlainEvents : e.type \in {"move", "selected"}}

NoDebounceCall ==
    [op |-> "none", now |-> 0, lastEvent |-> -1, setAt |-> -1, checks |-> 0,
     disposed |-> FALSE]

InitDebounce ==
    /\ trackers = <<NewTracker>>
    /\ changeListeners = {<<1, h>> : h \in Handlers}
    /\ trkLastOp = TrkOp("new", 1, FALSE)
    /\ ws = EmptyWorkspace
    /\ dom = IdleDom
    /\ tb = NoTypeBlocking
    /\ controllers = <<>>
    /\ generators = <<>>
    /\ patternManager = NoObject
    /\ positioner = NoObject
    /\ lastCall = NoDebounceCall

DebounceRest == <<hostVars, pluginVars, standaloneVars>>

\* Whether the listeners tracker i has registered set a timer on the event.
SetsTimer(i, event) ==
    ApplyHandlers([trackers[i] EXCEPT !.changeTimeout = NoTimer],
                  HostHandlersOf(i), event).changeTimeout # NoTimer

\* The host fires a change event.
DbEvent ==
    /\ \E event \in DebounceEvents :
          /\ DeliverEvent(event)
          /\ lastCall' = [lastCall EXCEPT
                !.op = "event",
                !.lastEvent = IF event.workspaceId = WorkspaceId THEN lastCall.now ELSE @,
                !.checks = IF event.workspaceId = WorkspaceId THEN 0 ELSE @,
                !.setAt = IF SetsTimer(1, event) THEN lastCall.now ELSE @]
    /\ UNCHANGED DebounceRest

\* Time passes, up to the expiry of the pending timer.
DbTick ==
    /\ lastCall.now < MaxTime
    /\ trackers[1].changeTimeout # NoTimer
          => lastCall.now + TickStep <= lastCall.setAt + DebounceDelay
    /\ lastCall' = [lastCall EXCEPT !.op = "tick", !.now = @ + TickStep]
    /\ UNCHANGED <<trackerVars, DebounceRest>>

\* The pending timer expires and its callback runs.
DbTimer ==
    /\ lastCall.now = lastCall.setAt + DebounceDelay
    /\ TimerFire(1)
    /\ lastCall' = [lastCall EXCEPT !.op = "timer", !.checks = @ + 1]
    /\ UNCHANGED DebounceRest

\* tracker.dispose()
DbDispose ==
    /\ CallTrackerDispose(1)
    /\ lastCall' = [lastCall EXCEPT !.op = "dispose", !.disposed = TRUE]
    /\ UNCHANGED DebounceRest

\* tracker.markReloaded()
DbMarkReloaded ==
    /\ CallMarkReloaded(1)
    /\ lastCall' = [lastCall EXCEPT !.op = "markReloaded"]
    /\ UNCHANGED DebounceRest

NextDebounce ==
    \/ DbEvent
    \/ DbTick
    \/ DbTimer
    \/ DbDispose
    \/ DbMarkReloaded

SpecDebounce == InitDebounce /\ [][NextDebounce]_vars

\* C27: every event of the tracked workspace replaces the pending timer, so
\* the pending timer was set at the last such event; the debounced check
\* runs DebounceDelay ms after the last event and at most once after it; and
\* after dispose() no timer is pending and no check runs.
C27_DebouncedOnce ==
    /\ (trackers[1].changeTimeout # NoTimer /\ ~lastCall.disposed)
          => lastCall.setAt = lastCall.lastEvent
    /\ lastCall.op = "timer"
          => /\ lastCall.now = lastCall.lastEvent + DebounceDelay
             /\ ~lastCall.disposed
    /\ lastCall.checks <= 1
    /\ lastCall.disposed => trackers[1].changeTimeout = NoTimer

\* The check has run once, 100 ms after the last of three events that came
\* 50 ms apart.
C27_Witness ==
    /\ lastCall.op = "timer"
    /\ lastCall.checks = 1
    /\ lastCall.lastEvent = 100
    /\ lastCall.now = 200

\* A timer was pending when dispose() was called, and the time at which it
\* would have expired has passed.
C27_WitnessDisposed ==
    /\ lastCall.disposed
    /\ lastCall.setAt >= 0
    /\ lastCall.checks = 0
    /\ lastCall.now > lastCall.setAt + DebounceDelay

(***************************************************************************)
(* SpecPlacements: one BlockPositioner on a workspace whose scroll and     *)
(* zoom never change.  Each step the application creates a block and has   *)
(* the positioner place it at a pointer coordinate, or at the centre of    *)
(* the injection div; nothing else moves a block.                          *)
(***************************************************************************)
MaxPlacedBlocks == 4

\* Pointer coordinates whose diagonals of offsets never meet: two blocks can
\* only share a workspace position when they were placed at the same pointer
\* coordinate with the same offset.
PlacementPositions == {NoPosition, Position(100, 100), Position(250, 100)}

PlacementWorkspaces ==
    {[EmptyWorkspace EXCEPT !.view.scale = scale] : scale \in {1, 2}}

NoPlacedBlock == [op |-> "none", at |-> NoPosition]

InitPlacements ==
    /\ ws \in PlacementWorkspaces
    /\ positioner = NewStandaloneBlockPositioner
    /\ patternManager = NoObject
    /\ trackers = <<>>
    /\ changeListeners = {}
    /\ trkLastOp = TrkOp("none", 0, FALSE)
    /\ dom = IdleDom
    /\ tb = NoTypeBlocking
    /\ controllers = <<>>
    /\ generators = <<>>
    /\ lastCall = NoPlacedBlock

\* workspace.newBlock(type), then BlockPositioner.positionBlock(block, x, y).
PlPlaceNewBlock ==
    /\ Len(ws.blocks) < MaxPlacedBlocks
    /\ \E clientPos \in PlacementPositions :
       \E created \in {hostNewBlock(ws, "text_print").ws} :
       \E r \in {positionBlock(positioner.base, created, NewestBlock(created), clientPos)} :
          /\ ws' = r.ws
          /\ positioner' = [positioner EXCEPT !.base = r.bp]
          /\ lastCall' = [op |-> "positionBlock", at |-> clientPos]
    /\ UNCHANGED PositionerRest

NextPlacements == PlPlaceNewBlock

SpecPlacements == InitPlacements /\ [][NextPlacements]_vars

\* C29: no two blocks placed by one BlockPositioner, with scroll and zoom
\* unchanged and no block moved in between, are at the same workspace
\* position; also when the pointer returns to a coordinate used earlier.
C29_NoTwoAtSamePosition ==
    \A i, j \in DOMAIN ws.blocks :
        i # j => <<ws.blocks[i].x, ws.blocks[i].y>> # <<ws.blocks[j].x, ws.blocks[j].y>>

(***************************************************************************)
(* SpecRenderer: a Renderer on its own (dom.renderer), driven by           *)
(* setSuggestions calls and keydown events handed to onKey.  lastCall      *)
(* holds the call made last: the key, what it handed to choose (chosen, a  *)
(* sequence of at most one option), what it returned and whether it threw. *)
(***************************************************************************)
MaxRendererCalls == 4

RendererKeys == {"ArrowDown", "ArrowUp", "Enter", "Tab", "a"}

RendererSuggestions ==
    {<<>>,
     <<createOption(Str["print"])>>,
     <<createOption(Str["print"]), createOption(Str["repeat"]), createOption(Str["set"])>>}

Max(a, b) == IF a > b THEN a ELSE b

\* Renderer.onKey(key, choose)
onKey(r, key) ==
    IF key = "ArrowDown"
    THEN With(updateHighlight(r, Min(r.highlighted + 1, Len(r.suggestions) - 1)),
              LAMBDA u : [renderer |-> u.renderer, chosen |-> <<>>,
                          returned |-> TRUE, threw |-> u.threw])
    ELSE IF key = "ArrowUp"
    THEN With(updateHighlight(r, Max(r.highlighted - 1, 0)),
              LAMBDA u : [renderer |-> u.renderer, chosen |-> <<>>,
                          returned |-> TRUE, threw |-> u.threw])
    ELSE IF key \in {"Enter", "Tab"}
    THEN [renderer |-> r,
          chosen |-> IF canCommit(r) THEN <<r.suggestions[r.highlighted + 1]>> ELSE <<>>,
          returned |-> canCommit(r), threw |-> FALSE]
    ELSE [renderer |-> r, chosen |-> <<>>, returned |-> FALSE, threw |-> FALSE]

NoRendererCall ==
    [op |-> "none", count |-> 0, key |-> "", chosen |-> <<>>, threw |-> FALSE]

InitRenderer ==
    /\ dom \in {[IdleDom EXCEPT !.renderer = NewRenderer(initial)] :
                   initial \in {<<>>, <<"p", "r">>}}
    /\ ws = EmptyWorkspace
    /\ positioner = NoObject
    /\ patternManager = NoObject
    /\ trackers = <<>>
    /\ changeListeners = {}
    /\ trkLastOp = TrkOp("none", 0, FALSE)
    /\ tb = NoTypeBlocking
    /\ controllers = <<>>
    /\ generators = <<>>
    /\ lastCall = NoRendererCall

RendererRest == <<trackerVars, ws, pluginVars, standaloneVars>>

RnSetSuggestions ==
    /\ lastCall.count < MaxRendererCalls
    /\ \E suggestions \in RendererSuggestions :
       \E r \in {setSuggestions(dom.renderer, suggestions)} :
          /\ dom' = [dom EXCEPT !.renderer = r.renderer]
          /\ lastCall' = [op |-> "setSuggestions", count |-> lastCall.count + 1,
                          key |-> "", chosen |-> <<>>, threw |-> r.threw]
    /\ UNCHANGED RendererRest

RnKey ==
    /\ lastCall.count < MaxRendererCalls
    /\ \E key \in RendererKeys :
       \E r \in {onKey(dom.renderer, key)} :
          /\ dom' = [dom EXCEPT !.renderer = r.renderer]
          /\ lastCall' = [op |-> "onKey", count |-> lastCall.count + 1,
                          key |-> key, chosen |-> r.chosen, threw |-> r.threw]
    /\ UNCHANGED RendererRest

NextRenderer ==
    \/ RnSetSuggestions
    \/ RnKey

SpecRenderer == InitRenderer /\ [][NextRenderer]_vars

\* C30: after any sequence of setSuggestions calls and key presses the
\* highlighted index is -1 when the suggestion list is empty and otherwise
\* an index into the list, 0 right after a setSuggestions with a non-empty
\* list; Enter or Tab hands choose exactly the highlighted suggestion, and
\* nothing when the list is empty.
C30_HighlightedValid ==
    With(dom.renderer, LAMBDA r :
        /\ IF Len(r.suggestions) = 0 THEN r.highlighted = -1
           ELSE r.highlighted \in 0 .. Len(r.suggestions) - 1
        /\ (lastCall.op = "setSuggestions" /\ Len(r.suggestions) > 0)
              => r.highlighted = 0
        /\ (lastCall.op = "onKey" /\ lastCall.key \in {"Enter", "Tab"})
              => lastCall.chosen =
                    IF Len(r.suggestions) = 0 THEN <<>>
                    ELSE <<r.suggestions[r.highlighted + 1]>>)

====
